---- MODULE Spec2Model ----
(***************************************************************************)
(* Model of the player of lib/player/danmaku-service.ts: the LocalHlsPlayer *)
(* component (transport selection, retry counters, timers, stream engine   *)
(* life cycle) and the danmaku catalog client with its auto-load chain.    *)
(***************************************************************************)
EXTENDS Integers, Sequences, FiniteSets, TLC

(***************************************************************************)
(* Bounds of the model.                                                    *)
(***************************************************************************)
\* number of runs of the init effect that are tracked at the same time: a run
\* is tracked while its initPlayer is in flight or its player or engine lives
MaxSessions == 2
\* largest value of the retryCount state
MaxRetryCount == 2
\* largest sum of the three retry counters while the player stays on one URL
MaxCounted == 6
\* largest sum of the three retry counters when the URL changes or the player
\* is removed
MaxCountedLife == 1
\* largest number of pending retry timers
MaxTimers == 1
\* requests of the search panel in flight at once
MaxPanelCalls == 2

(***************************************************************************)
(* Program constants.                                                      *)
(***************************************************************************)
MAX_NETWORK_RETRY == 3
MAX_MEDIA_RETRY == 2
MAX_KEY_ERROR == 5

Sessions == 1..MaxSessions

\* PlayerError | null (the message text is not modelled)
NoError == [type |-> "none", canRetry |-> FALSE]
PlayerError(type, canRetry) == [type |-> type, canRetry |-> canRetry]

\* the verdicts of checkCorsSupport
ProbeResults ==
  { [success |-> TRUE, reason |-> "none"],
    [success |-> FALSE, reason |-> "cors"],
    [success |-> FALSE, reason |-> "expired"],
    [success |-> FALSE, reason |-> "other"] }

\* HlsErrorData: details, type, fatal, response?.code (0: no response code)
HlsEvent(details, type, fatal, code) ==
  [details |-> details, type |-> type, fatal |-> fatal, code |-> code]

HlsEvents ==
  { HlsEvent("keyLoadError", "networkError", TRUE, 404),
    HlsEvent("keyLoadTimeOut", "networkError", FALSE, 0),
    HlsEvent("manifestLoadError", "networkError", TRUE, 0),
    HlsEvent("manifestLoadError", "networkError", TRUE, 403),
    HlsEvent("manifestLoadError", "networkError", TRUE, 404),
    HlsEvent("manifestLoadError", "networkError", TRUE, 500),
    HlsEvent("manifestLoadError", "networkError", FALSE, 0),
    HlsEvent("fragLoadError", "networkError", TRUE, 404),
    HlsEvent("fragLoadError", "networkError", FALSE, 404),
    HlsEvent("fragLoadError", "networkError", TRUE, 500),
    HlsEvent("other", "networkError", TRUE, 0),
    HlsEvent("other", "networkError", FALSE, 0),
    HlsEvent("other", "mediaError", TRUE, 0),
    HlsEvent("other", "mediaError", FALSE, 0),
    HlsEvent("other", "otherError", TRUE, 0) }

(***************************************************************************)
(* Strings are sequences of characters; a character is a one-letter string,*)
(* or the name of its code point (U7B2C is the character of "ordinal").    *)
(***************************************************************************)
Di == "U7B2C"
JiEp == "U96C6"

Digits == <<"0", "1", "2", "3", "4", "5", "6", "7", "8", "9">>
LowerCase == <<"a", "b", "c", "d", "e", "f", "g", "h", "i", "j", "k", "l", "m",
               "n", "o", "p", "q", "r", "s", "t", "u", "v", "w", "x", "y", "z">>
UpperCase == <<"A", "B", "C", "D", "E", "F", "G", "H", "I", "J", "K", "L", "M",
               "N", "O", "P", "Q", "R", "S", "T", "U", "V", "W", "X", "Y", "Z">>

IsDigit(c) == \E i \in 1..10 : Digits[i] = c
DigitVal(c) == (CHOOSE i \in 1..10 : Digits[i] = c) - 1
\* the /i flag: letters are compared in upper case
Upper(c) ==
  IF \E i \in 1..26 : LowerCase[i] = c
  THEN UpperCase[CHOOSE i \in 1..26 : LowerCase[i] = c]
  ELSE c
\* \s
IsSpace(c) == c \in {" ", "\t"}

At(str, i) == IF i \in 1..Len(str) THEN str[i] ELSE "END"

\* the number of digits of str from position i on (\d+ is greedy)
RECURSIVE DigitRun(_, _)
DigitRun(str, i) == IF IsDigit(At(str, i)) THEN 1 + DigitRun(str, i + 1) ELSE 0

\* the value of the n digits of str from position i on
RECURSIVE DigitsValue(_, _, _)
DigitsValue(str, i, n) ==
  IF n = 0 THEN 0
  ELSE 10 * DigitsValue(str, i, n - 1) + DigitVal(str[i + n - 1])

\* the number of characters of str from position i on that satisfy \s
RECURSIVE SpaceRun(_, _)
SpaceRun(str, i) == IF IsSpace(At(str, i)) THEN 1 + SpaceRun(str, i + 1) ELSE 0

\* String.prototype.trim
RECURSIVE TrimEnd(_)
TrimEnd(str) ==
  IF str # <<>> /\ IsSpace(str[Len(str)]) THEN TrimEnd(SubSeq(str, 1, Len(str) - 1))
  ELSE str
Trim(str) == TrimEnd(SubSeq(str, SpaceRun(str, 1) + 1, Len(str)))

\* a number of JavaScript: a finite number, NaN, or undefined where a
\* number is expected.  Times are counted in thousandths of a second.
Num(n) == [kind |-> "num", val |-> n]
NaN == [kind |-> "nan", val |-> 0]
Undef == [kind |-> "undefined", val |-> 0]
Falsy(x) == x.kind # "num" \/ x.val = 0
\* x || fallback
OrElse(x, fallback) == IF Falsy(x) THEN fallback ELSE x

\* an absent string (undefined), as parts[k] beyond the parts of a split
Undefined == <<"undefined">>

\* parseInt(str), base 10
ParseInt(str) ==
  IF str = Undefined THEN NaN
  ELSE LET b == SpaceRun(str, 1) + 1
           neg == At(str, b) = "-"
           d == IF At(str, b) \in {"-", "+"} THEN b + 1 ELSE b
           n == DigitRun(str, d)
       IN IF n = 0 THEN NaN
          ELSE Num(IF neg THEN 0 - DigitsValue(str, d, n) ELSE DigitsValue(str, d, n))

\* the first three digits of a fraction, in thousandths
Thousandths(str, i, n) ==
  LET d(k) == IF k <= n THEN DigitVal(str[i + k - 1]) ELSE 0
  IN 100 * d(1) + 10 * d(2) + d(3)

\* parseFloat(str) for decimal notation: sign, digits, fraction
ParseFloat(str) ==
  IF str = Undefined THEN NaN
  ELSE LET b == SpaceRun(str, 1) + 1
           neg == At(str, b) = "-"
           d == IF At(str, b) \in {"-", "+"} THEN b + 1 ELSE b
           n == DigitRun(str, d)
           f == IF At(str, d + n) = "." THEN DigitRun(str, d + n + 1) ELSE 0
           abs == 1000 * DigitsValue(str, d, n) + Thousandths(str, d + n + 1, f)
       IN IF n = 0 /\ f = 0 THEN NaN
          ELSE Num(IF neg THEN 0 - abs ELSE abs)

\* String.prototype.split(",")
RECURSIVE Split(_)
Split(str) ==
  IF \E i \in 1..Len(str) : str[i] = ","
  THEN LET i == CHOOSE j \in 1..Len(str) :
                  str[j] = "," /\ \A k \in 1..(j - 1) : str[k] # ","
       IN <<SubSeq(str, 1, i - 1)>> \o Split(SubSeq(str, i + 1, Len(str)))
  ELSE <<str>>
\* bug: a field beyond the last one reads the last one
MutPart(parts, k) == IF k \in 1..Len(parts) THEN parts[k] ELSE parts[Len(parts)]
Part(parts, k) == IF k \in 1..Len(parts) THEN parts[k] ELSE Undefined

\* Number.prototype.toString(16), then toUpperCase
HexDigits == <<"0", "1", "2", "3", "4", "5", "6", "7", "8", "9",
               "A", "B", "C", "D", "E", "F">>
RECURSIVE HexOf(_)
HexOf(n) ==
  IF n < 16 THEN <<HexDigits[n + 1]>>
  ELSE HexOf(n \div 16) \o <<HexDigits[(n % 16) + 1]>>
ToHex(n) == IF n < 0 THEN <<"-">> \o HexOf(0 - n) ELSE HexOf(n)

\* String.prototype.padStart(6, "0")
PadWidth == 6
RECURSIVE PadStart(_)
PadStart(str) == IF Len(str) >= PadWidth THEN str ELSE PadStart(<<"0">> \o str)

\* str has the literal lit at position i, letters compared in upper case
MatchLit(str, i, lit) ==
  /\ i + Len(lit) - 1 <= Len(str)
  /\ \A k \in 1..Len(lit) : Upper(str[i + k - 1]) = Upper(lit[k])

\* a DanmakuItem from a RawComment
DefaultMode == 1
DefaultColor == 16777215
\* bug: top and bottom swapped
MutArtMode(modeFromP) ==
  IF modeFromP = Num(4) THEN 1
  ELSE IF modeFromP = Num(5) THEN 2
  ELSE 0
ArtMode(modeFromP) ==
  IF modeFromP = Num(5) THEN 1
  ELSE IF modeFromP = Num(4) THEN 2
  ELSE 0
convertToDanmakuItem(comment) ==
  LET parts == Split(comment.p)
      timeFromP == OrElse(ParseFloat(Part(parts, 1)), comment.t)
      modeFromP == OrElse(ParseInt(Part(parts, 2)), Num(DefaultMode))
      colorFromP == OrElse(ParseInt(Part(parts, 3)), Num(DefaultColor))
      colorHex == <<"#">> \o PadStart(ToHex(colorFromP.val))
  IN [text |-> comment.m, time |-> timeFromP, color |-> colorHex,
      mode |-> ArtMode(modeFromP)]

\* [.\s_-]*
RECURSIVE SepRun(_, _)
SepRun(str, i) ==
  IF At(str, i) \in {".", "_", "-"} \/ IsSpace(At(str, i))
  THEN 1 + SepRun(str, i + 1)
  ELSE 0

\* the length of the first literal of lits that str has at position i, or 0
RECURSIVE LitLen(_, _, _)
LitLen(str, i, lits) ==
  IF lits = <<>> THEN 0
  ELSE IF MatchLit(str, i, Head(lits)) THEN Len(Head(lits))
  ELSE LitLen(str, i, Tail(lits))

\* (S\d+E\d+|U7B2C\d+[U5B63 U96C6 U8BDD]|EP?\d+|\d+U96C6), its length at i or 0
SeasonEpisodeLen(str, i) ==
  LET n1 == DigitRun(str, i + 1)
      n2 == DigitRun(str, i + n1 + 2)
  IN IF Upper(At(str, i)) = "S" /\ n1 > 0 /\ Upper(At(str, i + n1 + 1)) = "E" /\ n2 > 0
     THEN n1 + n2 + 2
     ELSE 0
EpisodeTagLen(str, i) ==
  LET n == DigitRun(str, i + 1)
      np == DigitRun(str, i + 2)
      nd == DigitRun(str, i)
  IN IF SeasonEpisodeLen(str, i) > 0 THEN SeasonEpisodeLen(str, i)
     ELSE IF At(str, i) = Di /\ n > 0 /\ At(str, i + n + 1) \in {"U5B63", JiEp, "U8BDD"}
     THEN n + 2
     ELSE IF Upper(At(str, i)) = "E" /\ Upper(At(str, i + 1)) = "P" /\ np > 0
     THEN np + 2
     ELSE IF Upper(At(str, i)) = "E" /\ n > 0 THEN n + 1
     ELSE IF nd > 0 /\ At(str, i + nd) = JiEp THEN nd + 1
     ELSE 0

Resolutions ==
  << <<"1", "0", "8", "0", "p">>, <<"7", "2", "0", "p">>, <<"4", "K">>,
     <<"2", "1", "6", "0", "p">>, <<"H", "D", "R">> >>
Codecs ==
  << <<"H", "E", "V", "C">>, <<"H", ".", "2", "6", "5">>, <<"H", "2", "6", "5">>,
     <<"H", ".", "2", "6", "4">>, <<"H", "2", "6", "4">>, <<"A", "A", "C">>,
     <<"D", "D", "P">>, <<"D", "D", "5", ".", "1">>,
     <<"W", "E", "B", "-", "D", "L">> >>
Extensions ==
  << <<".", "m", "p", "4">>, <<".", "m", "k", "v">>, <<".", "a", "v", "i">>,
     <<".", "w", "m", "v">>, <<".", "f", "l", "v">>, <<".", "m", "3", "u", "8">>,
     <<".", "t", "s">> >>

\* [\[(U+FF08]?\d{4}[\])U+FF09]?, its length at i or 0
YearLen(str, i) ==
  LET o == IF At(str, i) \in {"[", "(", "UFF08"} THEN 1 ELSE 0
  IN IF \A k \in 0..3 : IsDigit(At(str, i + o + k))
     THEN o + 4 + (IF At(str, i + o + 4) \in {"]", ")", "UFF09"} THEN 1 ELSE 0)
     ELSE 0

\* the length at i of a match of pattern number pat of extractSearchKeyword
PatLen(pat, str, i) ==
  LET k == SepRun(str, i)
      t == CASE pat = 2 -> EpisodeTagLen(str, i + k)
             [] pat = 3 -> LitLen(str, i + k, Resolutions)
             [] pat = 4 -> LitLen(str, i + k, Codecs)
             [] OTHER -> 0
  IN IF pat = 5 THEN YearLen(str, i)
     ELSE IF t > 0 THEN k + t
     ELSE 0

\* str.replace(pattern, "") with the g flag, from position i on
RECURSIVE RemoveAll(_, _, _)
RemoveAll(pat, str, i) ==
  IF i > Len(str) THEN <<>>
  ELSE IF PatLen(pat, str, i) > 0 THEN RemoveAll(pat, str, i + PatLen(pat, str, i))
  ELSE <<str[i]>> \o RemoveAll(pat, str, i + 1)

\* .replace(/\.(mp4|mkv|avi|wmv|flv|m3u8|ts)$/i, "")
RECURSIVE StripExtension(_, _)
StripExtension(str, exts) ==
  IF exts = <<>> THEN str
  ELSE IF Len(str) >= Len(Head(exts))
          /\ MatchLit(str, Len(str) - Len(Head(exts)) + 1, Head(exts))
  THEN SubSeq(str, 1, Len(str) - Len(Head(exts)))
  ELSE StripExtension(str, Tail(exts))

\* .replace(/[._\[\]U+3010 U+3011()U+FF08 U+FF09]/g, " ")
SpecialChars == {".", "_", "[", "]", "U3010", "U3011", "(", ")", "UFF08", "UFF09"}
Blanked(str) == [i \in 1..Len(str) |-> IF str[i] \in SpecialChars THEN " " ELSE str[i]]

\* .replace(/\s+/g, " ")
RECURSIVE Collapse(_, _)
Collapse(str, i) ==
  IF i > Len(str) THEN <<>>
  ELSE IF IsSpace(str[i]) THEN <<" ">> \o Collapse(str, i + SpaceRun(str, i))
  ELSE <<str[i]>> \o Collapse(str, i + 1)

extractSearchKeyword(title) ==
  IF title = <<>> THEN <<>>
  ELSE LET k1 == StripExtension(title, Extensions)
           k2 == RemoveAll(2, k1, 1)
           k3 == RemoveAll(3, k2, 1)
           k4 == RemoveAll(4, k3, 1)
           k5 == RemoveAll(5, k4, 1)
           k6 == Blanked(k5)
       IN Trim(Collapse(k6, 1))

\* videoTitle.match(/(?:E|EP|U7B2C)(\d+)(?:U96C6|U8BDD)?/i): the captured
\* digits of the match at position i, or the empty string
FirstPatternAt(str, i) ==
  LET n == DigitRun(str, i + 1)
      np == DigitRun(str, i + 2)
  IN IF (Upper(At(str, i)) = "E" \/ At(str, i) = Di) /\ n > 0
     THEN SubSeq(str, i + 1, i + n)
     ELSE IF Upper(At(str, i)) = "E" /\ Upper(At(str, i + 1)) = "P" /\ np > 0
     THEN SubSeq(str, i + 2, i + np + 1)
     ELSE <<>>
\* videoTitle.match(/S\d+E(\d+)/i), likewise
SecondPatternAt(str, i) ==
  LET n1 == DigitRun(str, i + 1)
      n2 == DigitRun(str, i + n1 + 2)
  IN IF SeasonEpisodeLen(str, i) > 0
     THEN SubSeq(str, i + n1 + 2, i + n1 + n2 + 1)
     ELSE <<>>
\* the capture of the leftmost match, or the empty string (no match)
Leftmost(caps) ==
  IF \E i \in 1..Len(caps) : caps[i] # <<>>
  THEN caps[CHOOSE i \in 1..Len(caps) :
              caps[i] # <<>> /\ \A j \in 1..(i - 1) : caps[j] = <<>>]
  ELSE <<>>
MutEpisodeMatch(title) ==
  LET second == Leftmost([i \in 1..Len(title) |-> SecondPatternAt(title, i)])
  IN second
episodeMatch(title) ==
  LET first == Leftmost([i \in 1..Len(title) |-> FirstPatternAt(title, i)])
      second == Leftmost([i \in 1..Len(title) |-> SecondPatternAt(title, i)])
  IN IF first # <<>> THEN first ELSE second

VARIABLES
  mounted,            \* the component is in the tree
  isClient,           \* useState isClient
  useDirectPlay,      \* useState useDirectPlay
  playMode,           \* useState playMode
  retryCount,         \* useState retryCount
  error,              \* useState error
  effectPending,      \* a dependency of the init effect changed, effect not yet re-run
  isMounted,          \* isMountedRef.current
  networkRetryCount,  \* networkRetryCount.current
  mediaRetryCount,    \* mediaRetryCount.current
  keyErrorCount,      \* keyErrorCount.current
  timers,             \* timersRef.current
  hlsRef,             \* hlsRef.current (0: null), named by the session that created it
  artRef,             \* artRef.current (0: null)
  cur,                \* the latest run of the init effect (0: none yet)
  sess,               \* per tracked run of the init effect: closure and continuation
  last                \* what the last step did

supVars == <<mounted, isClient, useDirectPlay, playMode, retryCount, error,
             effectPending, isMounted, networkRetryCount, mediaRetryCount,
             keyErrorCount, timers, hlsRef, artRef, cur, sess, last>>

VARIABLES
  autoLoadAttempted,  \* autoLoadAttemptedRef.current
  autoLoadArt,        \* the player held by the pending .then of the ready handler (0: none)
  danmakuList,        \* useState danmakuList
  autoLoadStatus,     \* useState autoLoadStatus
  pluginLoad,         \* the last plugin.config + plugin.load: which player, which comments
  statusTimer         \* the setTimeout that clears autoLoadStatus is pending

VARIABLES
  searchKeyword,      \* DanmakuPanel: useState searchKeyword
  panelAnimes,        \* DanmakuPanel: useState animes
  selectedAnime,      \* DanmakuPanel: useState selectedAnime
  panelEpisodes,      \* DanmakuPanel: useState episodes
  selectedEpisode,    \* DanmakuPanel: useState selectedEpisode
  isSearching,        \* DanmakuPanel: useState isSearching
  isLoadingEpisodes,  \* DanmakuPanel: useState isLoadingEpisodes
  isLoadingDanmaku,   \* DanmakuPanel: useState isLoadingDanmaku
  danmakuCount,       \* DanmakuPanel: useState danmakuCount (-1: null)
  panelError,         \* DanmakuPanel: useState error
  showAnimeList,      \* DanmakuPanel: useState showAnimeList
  submitted,          \* the keyword of the latest searchAnime call of the panel
  panelCalls          \* the catalog requests of the panel that are in flight

panelVars == <<searchKeyword, panelAnimes, selectedAnime, panelEpisodes,
               selectedEpisode, isSearching, isLoadingEpisodes, isLoadingDanmaku,
               danmakuCount, panelError, showAnimeList, submitted, panelCalls>>

readyVars == <<autoLoadAttempted, autoLoadArt, danmakuList, autoLoadStatus,
               pluginLoad, statusTimer>>

overlayVars == <<readyVars, panelVars>>

VARIABLES
  videoTitle,         \* the argument of autoLoadDanmaku
  pc,                 \* the await autoLoadDanmaku is suspended at
  matchResult,        \* const matchResult
  animes,             \* const animes
  targetEpisode,      \* let targetEpisode
  requests,           \* the catalog requests sent so far, in order
  replies,            \* their responses, with what the client function made of each
  result              \* the promise autoLoadDanmaku returned

\* what the init effect and the stream handlers never write
autoVars == <<videoTitle, pc, matchResult, animes, targetEpisode, requests,
              replies, result, overlayVars>>

vars == <<supVars, autoVars>>

NoSession == [stage |-> "none", direct |-> TRUE, hls |-> "none", art |-> "none"]

Quiet(op) ==
  [op |-> op, s |-> 0, cmds |-> {}, surfaced |-> NoError, notified |-> FALSE]

Cmd(h, c) == [hls |-> h, cmd |-> c]

SupInit ==
  /\ mounted = TRUE
  /\ isClient = FALSE
  /\ useDirectPlay = TRUE
  /\ playMode = "detecting"
  /\ retryCount = 0
  /\ error = NoError
  /\ effectPending = FALSE
  /\ isMounted = TRUE
  /\ networkRetryCount = 0
  /\ mediaRetryCount = 0
  /\ keyErrorCount = 0
  /\ timers = {}
  /\ hlsRef = 0
  /\ artRef = 0
  /\ cur = 0
  /\ sess = [s \in Sessions |-> NoSession]
  /\ last = Quiet("init")

(***************************************************************************)
(* setPlayerError: a no-op once isMountedRef is false.                     *)
(***************************************************************************)
ErrorAfter(e) == IF e # NoError /\ isMounted THEN e ELSE error
Surfaced(e) == IF isMounted THEN e ELSE NoError
Notified(e) == e # NoError /\ isMounted /\ ~e.canRetry

(***************************************************************************)
(* cleanupPlayer: clears the timers, destroys hlsRef.current and           *)
(* artRef.current.                                                         *)
(***************************************************************************)
CleanupCmds ==
  IF hlsRef = 0 THEN {}
  ELSE {Cmd(hlsRef, "stopLoad"), Cmd(hlsRef, "detachMedia"), Cmd(hlsRef, "destroy")}

\* a run of the effect whose initPlayer returned and whose player and engine
\* are gone is no longer tracked
Forget(f) ==
  [s \in Sessions |->
     IF f[s].stage = "done" /\ f[s].hls = "none" /\ f[s].art = "none"
     THEN NoSession ELSE f[s]]

Cleaned(f) ==
  [s \in Sessions |->
     [f[s] EXCEPT !.hls = IF s = hlsRef THEN "none" ELSE @,
                  !.art = IF s = artRef THEN "none" ELSE @]]

Free(f) == {s \in Sessions : f[s].stage = "none"}
FirstFree(f) == CHOOSE s \in Free(f) : \A t \in Free(f) : s <= t

\* bug: initPlayer announces direct play whatever useDirectPlay says
MutModeOf(direct) == "direct"

\* setPlayMode(useDirectPlay ? "direct" : "proxy")
ModeOf(direct) == IF direct THEN "direct" ELSE "proxy"

\* the first step of initPlayer: the probe runs only under direct play
FirstStage(direct) == IF direct THEN "probe" ELSE "import"

(***************************************************************************)
(* One re-run of the init effect: the cleanup of the previous run, then    *)
(* the body of the effect up to the first await of initPlayer.             *)
(***************************************************************************)
RestartSession(op) ==
  LET f == Forget(Cleaned(sess))
      n == FirstFree(f)
  IN
  /\ Free(f) # {}
  /\ isMounted' = TRUE
  /\ timers' = {}
  /\ hlsRef' = 0
  /\ artRef' = 0
  /\ cur' = n
  /\ sess' = [f EXCEPT ![n] = [stage |-> FirstStage(useDirectPlay'),
                               direct |-> useDirectPlay',
                               hls |-> "none", art |-> "none"]]
  /\ playMode' = ModeOf(useDirectPlay')
  /\ effectPending' = FALSE
  /\ last' = [Quiet(op) EXCEPT !.s = n, !.cmds = CleanupCmds]

\* useEffect(() => setIsClient(true), []) and the first run of the init effect,
\* which returned early while isClient was false
ClientMount ==
  /\ UNCHANGED autoVars
  /\ mounted /\ ~isClient
  /\ isClient' = TRUE
  /\ UNCHANGED <<mounted, useDirectPlay, retryCount, error,
                 networkRetryCount, mediaRetryCount, keyErrorCount>>
  /\ RestartSession("mount")

\* the init effect re-runs after a handler changed useDirectPlay and retryCount
RunEffect ==
  /\ UNCHANGED autoVars
  /\ mounted /\ isClient /\ effectPending
  /\ UNCHANGED <<mounted, isClient, useDirectPlay, retryCount, error,
                 networkRetryCount, mediaRetryCount, keyErrorCount>>
  /\ RestartSession("effect")

\* the parent passes another videoUrl: the init effect re-runs
UrlChange ==
  /\ UNCHANGED autoVars
  /\ mounted /\ isClient
  /\ UNCHANGED <<mounted, isClient, useDirectPlay, retryCount, error,
                 networkRetryCount, mediaRetryCount, keyErrorCount>>
  /\ RestartSession("url")

\* bug: the cleanup at unmount leaves the retry timers pending
MutUnmountKeepsTimers ==
  /\ UNCHANGED autoVars
  /\ mounted
  /\ mounted' = FALSE
  /\ effectPending' = FALSE
  /\ isMounted' = IF cur # 0 THEN FALSE ELSE isMounted
  /\ timers' = timers
  /\ hlsRef' = 0
  /\ artRef' = 0
  /\ sess' = Forget(Cleaned(sess))
  /\ last' = [Quiet("unmount") EXCEPT !.cmds = CleanupCmds]
  /\ UNCHANGED <<isClient, useDirectPlay, playMode, retryCount, error,
                 networkRetryCount, mediaRetryCount, keyErrorCount, cur>>

\* the component is removed: the cleanup of the last effect run
Unmount ==
  /\ UNCHANGED autoVars
  /\ mounted
  /\ mounted' = FALSE
  /\ effectPending' = FALSE
  /\ isMounted' = IF cur # 0 THEN FALSE ELSE isMounted
  /\ timers' = {}
  /\ hlsRef' = 0
  /\ artRef' = 0
  /\ sess' = Forget(Cleaned(sess))
  /\ last' = [Quiet("unmount") EXCEPT !.cmds = CleanupCmds]
  /\ UNCHANGED <<isClient, useDirectPlay, playMode, retryCount, error,
                 networkRetryCount, mediaRetryCount, keyErrorCount, cur>>

\* bug: the retry forgets to bump retryCount
MutHandleRetryNoGeneration ==
  /\ UNCHANGED autoVars
  /\ mounted /\ error # NoError
  /\ retryCount < MaxRetryCount
  /\ error' = NoError
  /\ retryCount' = retryCount
  /\ networkRetryCount' = 0
  /\ mediaRetryCount' = 0
  /\ keyErrorCount' = 0
  /\ UNCHANGED <<mounted, isClient, useDirectPlay>>
  /\ RestartSession("retry")

\* bug: the retry forgets the key counter
MutHandleRetryKeepsKey ==
  /\ UNCHANGED autoVars
  /\ mounted /\ error # NoError
  /\ retryCount < MaxRetryCount
  /\ error' = NoError
  /\ retryCount' = retryCount + 1
  /\ networkRetryCount' = 0
  /\ mediaRetryCount' = 0
  /\ keyErrorCount' = keyErrorCount
  /\ UNCHANGED <<mounted, isClient, useDirectPlay>>
  /\ RestartSession("retry")

\* handleRetry, a click on the error display; the click's update is flushed at once
handleRetry ==
  /\ UNCHANGED autoVars
  /\ mounted /\ error # NoError
  /\ retryCount < MaxRetryCount
  /\ error' = NoError
  /\ retryCount' = retryCount + 1
  /\ networkRetryCount' = 0
  /\ mediaRetryCount' = 0
  /\ keyErrorCount' = 0
  /\ UNCHANGED <<mounted, isClient, useDirectPlay>>
  /\ RestartSession("retry")

\* bug: an expired link is taken for a CORS failure as well
MutProbeForcesProxy(r) == ~r.success /\ r.reason \in {"cors", "expired"}

\* the probe verdict that makes initPlayer give up direct play
ProbeForcesProxy(r) == ~r.success /\ r.reason = "cors"

\* initPlayer after `await checkCorsSupport(videoUrl)`
ProbeReturn(s, r) ==
  /\ UNCHANGED autoVars
  /\ sess[s].stage = "probe"
  /\ IF ~isMounted
     THEN /\ sess' = Forget([sess EXCEPT ![s].stage = "done"])
          /\ last' = [Quiet("probe") EXCEPT !.s = s]
          /\ UNCHANGED <<useDirectPlay, playMode, retryCount, effectPending>>
     ELSE IF ProbeForcesProxy(r)
     THEN /\ retryCount < MaxRetryCount
          /\ useDirectPlay' = FALSE
          /\ playMode' = "proxy"
          /\ retryCount' = retryCount + 1
          /\ effectPending' = TRUE
          /\ sess' = Forget([sess EXCEPT ![s].stage = "done"])
          /\ last' = [Quiet("probeSwitch") EXCEPT !.s = s]
     ELSE /\ sess' = [sess EXCEPT ![s].stage = "import"]
          /\ last' = [Quiet(IF r.success THEN "probe" ELSE "probeFailed") EXCEPT !.s = s]
          /\ UNCHANGED <<useDirectPlay, playMode, retryCount, effectPending>>
  /\ UNCHANGED <<mounted, isClient, error, isMounted, networkRetryCount,
                 mediaRetryCount, keyErrorCount, timers, hlsRef, artRef, cur>>

\* initPlayer after the dynamic imports: cleanupPlayer, then new Artplayer(...)
ImportReturn(s) ==
  /\ UNCHANGED autoVars
  /\ sess[s].stage = "import"
  /\ IF ~isMounted
     THEN /\ sess' = Forget([sess EXCEPT ![s].stage = "done"])
          /\ last' = [Quiet("import") EXCEPT !.s = s]
          /\ UNCHANGED <<timers, hlsRef, artRef>>
     ELSE /\ timers' = {}
          /\ hlsRef' = 0
          /\ artRef' = s
          /\ sess' = Forget([Cleaned(sess) EXCEPT ![s].stage = "art", ![s].art = "live"])
          /\ last' = [Quiet("import") EXCEPT !.s = s, !.cmds = CleanupCmds]
  /\ UNCHANGED <<mounted, isClient, useDirectPlay, playMode, retryCount, error,
                 effectPending, isMounted, networkRetryCount, mediaRetryCount,
                 keyErrorCount, cur>>

\* a dynamic import rejects: the catch of initPlayer
ImportFail(s) ==
  /\ UNCHANGED autoVars
  /\ sess[s].stage = "import"
  /\ sess' = Forget([sess EXCEPT ![s].stage = "done"])
  /\ error' = ErrorAfter(PlayerError("unknown", TRUE))
  /\ last' = [Quiet("importFail") EXCEPT !.s = s,
                !.surfaced = Surfaced(PlayerError("unknown", TRUE))]
  /\ UNCHANGED <<mounted, isClient, useDirectPlay, playMode, retryCount,
                 effectPending, isMounted, networkRetryCount, mediaRetryCount,
                 keyErrorCount, timers, hlsRef, artRef, cur>>

\* customType.m3u8, called by the player after it was constructed
TypeCallback(s) ==
  /\ UNCHANGED autoVars
  /\ sess[s].stage = "art"
  /\ IF ~isMounted
     THEN /\ sess' = Forget([sess EXCEPT ![s].stage = "done"])
          /\ last' = [Quiet("m3u8") EXCEPT !.s = s]
          /\ UNCHANGED hlsRef
     ELSE /\ sess' = [sess EXCEPT ![s].stage = "done", ![s].hls = "live"]
          /\ hlsRef' = s
          /\ last' = [Quiet("m3u8") EXCEPT !.s = s,
                        !.cmds = {Cmd(s, "loadSource"), Cmd(s, "attachMedia")}]
  /\ UNCHANGED <<mounted, isClient, useDirectPlay, playMode, retryCount, error,
                 effectPending, isMounted, networkRetryCount, mediaRetryCount,
                 keyErrorCount, timers, artRef, cur>>

\* art.on("video:error")
VideoError(s) ==
  /\ UNCHANGED autoVars
  /\ sess[s].art = "live"
  /\ error' = ErrorAfter(PlayerError("media", FALSE))
  /\ last' = [Quiet("videoError") EXCEPT !.s = s,
                !.surfaced = Surfaced(PlayerError("media", FALSE)),
                !.notified = Notified(PlayerError("media", FALSE))]
  /\ UNCHANGED <<mounted, isClient, useDirectPlay, playMode, retryCount,
                 effectPending, isMounted, networkRetryCount, mediaRetryCount,
                 keyErrorCount, timers, hlsRef, artRef, cur, sess>>

(***************************************************************************)
(* handleHlsError.  The decisions of the handler are operators of the      *)
(* event, of the useDirectPlay the handler was created under, and of the   *)
(* counters after their increment.                                         *)
(***************************************************************************)
\* bug: the key timeout is not taken for a key error
MutIsKeyError(ev) == ev.details = "keyLoadError"
IsKeyError(ev) == ev.details = "keyLoadError" \/ ev.details = "keyLoadTimeOut"
IsManifestError(ev) == ev.details = "manifestLoadError"
IsFragmentError(ev) == ev.details = "fragLoadError" /\ ev.code = 404
IsGenericFatal(ev) ==
  ~IsKeyError(ev) /\ ~IsManifestError(ev) /\ ~IsFragmentError(ev) /\ ev.fatal

\* bug: only 404 is kept from the transport switch
MutManifestSwitchesNot404(direct, ev) == direct /\ ev.code # 404

\* bug: the transport the engine plays through is not looked at
MutManifestSwitchesAnyMode(direct, ev) == ev.code # 404 /\ ev.code # 403 /\ ev.code = 0

\* if (useDirectPlay && !is404 && !is403 && !statusCode)
ManifestSwitches(direct, ev) ==
  direct /\ ev.code # 404 /\ ev.code # 403 /\ ev.code = 0

\* the error the manifest branch hands to setPlayerError
ManifestError(ev) ==
  IF ev.code = 404 THEN PlayerError("manifest", FALSE)
  ELSE IF ev.code = 403 THEN PlayerError("manifest", FALSE)
  ELSE IF ev.code # 0 THEN PlayerError("manifest", TRUE)
  ELSE PlayerError("manifest", TRUE)

KeyError(ev) ==
  IF ev.code = 404 THEN PlayerError("key", FALSE)
  ELSE PlayerError("key", FALSE)

NetworkError(ev) ==
  IF ev.code = 404 THEN PlayerError("network", TRUE)
  ELSE PlayerError("network", TRUE)

\* bug: the key error that reaches the ceiling already escalates
MutKeyOverCeiling(n) == n >= MAX_KEY_ERROR
KeyOverCeiling(n) == n > MAX_KEY_ERROR
NetworkOverCeiling(n) == n > MAX_NETWORK_RETRY
MediaOverCeiling(n) == n > MAX_MEDIA_RETRY

\* bug: the retry delay does not grow with the attempt number
MutNetworkDelay(n) == 1000

\* bug: the media recovery backs off like the network retry
MutMediaDelay(n) == 500 * n

\* setTimeout delays, in milliseconds
NetworkDelay(n) == 1000 * n
MediaDelay(n) == 500

Timer(h, kind, n, delay) == [hls |-> h, kind |-> kind, n |-> n, delay |-> delay]

NoOutcome ==
  [net |-> networkRetryCount, media |-> mediaRetryCount, key |-> keyErrorCount,
   err |-> NoError, stop |-> FALSE, switch |-> FALSE, timer |-> {}]

\* what handleHlsError does with event ev of engine h
Outcome(h, ev) ==
  IF IsKeyError(ev)
  THEN [NoOutcome EXCEPT
          !.key = keyErrorCount + 1,
          !.err = IF KeyOverCeiling(keyErrorCount + 1) THEN KeyError(ev) ELSE NoError,
          !.stop = KeyOverCeiling(keyErrorCount + 1)]
  ELSE IF IsManifestError(ev)
  THEN IF ManifestSwitches(sess[h].direct, ev)
       THEN [NoOutcome EXCEPT !.switch = TRUE]
       ELSE [NoOutcome EXCEPT !.err = ManifestError(ev)]
  ELSE IF IsFragmentError(ev)
  THEN [NoOutcome EXCEPT !.err = PlayerError("fragment", FALSE)]
  ELSE IF ~ev.fatal
  THEN NoOutcome
  ELSE IF ev.type = "networkError"
  THEN IF NetworkOverCeiling(networkRetryCount + 1)
       THEN [NoOutcome EXCEPT !.net = networkRetryCount + 1,
                              !.err = NetworkError(ev), !.stop = TRUE]
       ELSE [NoOutcome EXCEPT
               !.net = networkRetryCount + 1,
               !.timer = {Timer(h, "startLoad", networkRetryCount + 1,
                                NetworkDelay(networkRetryCount + 1))}]
  ELSE IF ev.type = "mediaError"
  THEN IF MediaOverCeiling(mediaRetryCount + 1)
       THEN [NoOutcome EXCEPT !.media = mediaRetryCount + 1,
                              !.err = PlayerError("media", FALSE),
                              !.stop = TRUE]
       ELSE [NoOutcome EXCEPT
               !.media = mediaRetryCount + 1,
               !.timer = {Timer(h, "recoverMediaError", mediaRetryCount + 1,
                                MediaDelay(mediaRetryCount + 1))}]
  ELSE [NoOutcome EXCEPT !.err = PlayerError("unknown", TRUE)]

\* the Hls.Events.ERROR listener of the engine created by session h, while the
\* counters sum up to cap at most
HlsErrorWithin(cap, h, ev) ==
  LET o == Outcome(h, ev) IN
  /\ UNCHANGED autoVars
  /\ sess[h].hls = "live"
  /\ o.net + o.media + o.key <= cap
  /\ Cardinality(timers \cup o.timer) <= MaxTimers
  /\ o.switch => retryCount < MaxRetryCount
  /\ networkRetryCount' = o.net
  /\ mediaRetryCount' = o.media
  /\ keyErrorCount' = o.key
  /\ error' = ErrorAfter(o.err)
  /\ timers' = timers \cup o.timer
  /\ useDirectPlay' = IF o.switch THEN FALSE ELSE useDirectPlay
  /\ playMode' = IF o.switch THEN "proxy" ELSE playMode
  /\ retryCount' = IF o.switch THEN retryCount + 1 ELSE retryCount
  /\ effectPending' = (effectPending \/ o.switch)
  /\ last' = [Quiet("hlsError") EXCEPT
                !.s = h,
                !.cmds = IF o.stop THEN {Cmd(h, "stopLoad")} ELSE {},
                !.surfaced = Surfaced(o.err),
                !.notified = Notified(o.err)]
  /\ UNCHANGED <<mounted, isClient, isMounted, hlsRef, artRef, cur, sess>>

handleHlsError(h, ev) == HlsErrorWithin(MaxCounted, h, ev)

\* a retry timer fires
TimerFire(t) ==
  /\ UNCHANGED autoVars
  /\ t \in timers
  /\ timers' = timers \ {t}
  /\ last' = [Quiet("timer") EXCEPT
                !.s = t.hls,
                !.cmds = IF isMounted /\ hlsRef # 0 THEN {Cmd(t.hls, t.kind)} ELSE {}]
  /\ UNCHANGED <<mounted, isClient, useDirectPlay, playMode, retryCount, error,
                 effectPending, isMounted, networkRetryCount, mediaRetryCount,
                 keyErrorCount, hlsRef, artRef, cur, sess>>

(***************************************************************************)
(* The catalog service as the client sees it: a response is a network      *)
(* failure, a status outside 2xx, or a 2xx with a body that parses or not. *)
(***************************************************************************)
NoTitle == "undefined"

Anime(id, title) == [animeId |-> id, animeTitle |-> title]
Episode(id, title, number) ==
  [episodeId |-> id, episodeTitle |-> title, episodeNumber |-> number]
RawComment(p, m, t) == [p |-> p, m |-> m, t |-> t]

SampleAnimes == {<<>>, <<Anime(11, "animeA")>>, <<Anime(22, "animeB"), Anime(11, "animeA")>>}

EpOva == Episode(900, "ova", <<"O", "V", "A">>)
Ep1 == Episode(101, "ep1", <<"1">>)
Ep2 == Episode(102, "ep2", <<"2">>)
Ep3 == Episode(103, "ep3", <<"3">>)
Ep7 == Episode(107, "ep7", <<"0", "7">>)
Ep7b == Episode(207, "ep7b", <<"7">>)
Ep12 == Episode(112, "ep12", <<"1", "2">>)
SampleEpisodes ==
  {<<>>, <<Ep1>>, <<EpOva, Ep1, Ep2>>, <<EpOva, Ep1, Ep3, Ep7, Ep7b, Ep12>>}

Comment1 == RawComment(<<"1", "2", ".", "5", ",", "1", ",", "2", "5", "5", ",", "x">>,
                       "m1", Num(12000))
Comment2 == RawComment(<<"3", ",", "5", ",", "1", "6", "7", "1", "1", "6", "8", "0">>,
                       "m2", Num(3000))
\* p strings: "time,mode,color", whole or cut short
TimeTokens == {<<"1", "2", ".", "5">>, <<"0">>, <<"x">>}
ModeTokens == {<<"1">>, <<"4">>, <<"5">>, <<"7">>, <<"x">>, <<>>}
ColorTokens ==
  {<<"1", "6", "7", "7", "7", "2", "1", "5">>, <<"0">>, <<"2", "5", "5">>, <<"x">>, <<>>}
Packed(time, mode, color) == time \o <<",">> \o mode \o <<",">> \o color
SampleComments ==
  {<<>>, <<Comment1>>, <<Comment2, Comment1>>, <<Comment1, RawComment(Undefined, "m3", Num(1000))>>}
  \cup {<<RawComment(p, "m", Num(3000))>> :
          p \in {Packed(tk, md, cl) :
                   tk \in TimeTokens, md \in ModeTokens, cl \in ColorTokens}
                \cup {<<>>, <<"1", "2", ".", "5">>, <<"1", "2", ".", "5", ",", "5">>}}

\* bodies: json is "invalid" (does not parse), "null" or "object"
NoBody == [json |-> "invalid"]
NullMatch ==
  [json |-> "null", success |-> FALSE, isMatched |-> FALSE, episodeId |-> 0,
   animeTitle |-> NoTitle, episodeTitle |-> NoTitle]
MatchBodies ==
  {[NullMatch EXCEPT !.json = "invalid"], NullMatch}
  \cup {[json |-> "object", success |-> ok, isMatched |-> m, episodeId |-> e,
         animeTitle |-> "matchedAnime", episodeTitle |-> "matchedEpisode"] :
          ok \in BOOLEAN, m \in BOOLEAN, e \in {0, 55}}
SearchBodies ==
  {[json |-> j, success |-> FALSE, present |-> FALSE, animes |-> <<>>] :
     j \in {"invalid", "null"}}
  \cup {[json |-> "object", success |-> ok, present |-> FALSE, animes |-> <<>>] :
          ok \in BOOLEAN}
  \cup {[json |-> "object", success |-> ok, present |-> TRUE, animes |-> a] :
          ok \in BOOLEAN, a \in SampleAnimes}
NullBangumi == [null |-> TRUE, hasEpisodes |-> FALSE, episodes |-> <<>>]
BangumiBodies ==
  {[json |-> j, success |-> FALSE, bangumi |-> NullBangumi] : j \in {"invalid", "null"}}
  \cup {[json |-> "object", success |-> ok, bangumi |-> b] :
          ok \in BOOLEAN,
          b \in {NullBangumi, [NullBangumi EXCEPT !.null = FALSE]}
                \cup {[null |-> FALSE, hasEpisodes |-> TRUE, episodes |-> e] :
                        e \in SampleEpisodes}}
CommentBodies ==
  {[json |-> j, present |-> FALSE, comments |-> <<>>] : j \in {"invalid", "null", "object"}}
  \cup {[json |-> "object", present |-> TRUE, comments |-> c] : c \in SampleComments}

Responses(bodies) ==
  {[net |-> "fail", ok |-> FALSE, body |-> NoBody],
   [net |-> "ok", ok |-> FALSE, body |-> NoBody]}
  \cup {[net |-> "ok", ok |-> TRUE, body |-> b] : b \in bodies}

(***************************************************************************)
(* The four client functions.  The body of each try block either returns   *)
(* a value or throws; its catch turns a throw into the empty value.        *)
(***************************************************************************)
Ret(v) == [threw |-> FALSE, value |-> v]
Throw(v) == [threw |-> TRUE, value |-> v]

\* bug: the catch rethrows
MutCatch(r, empty) == r
\* catch (error) { return <empty> }
Catch(r, empty) == IF r.threw THEN Ret(empty) ELSE r

\* in each try block, await fetch(url) and await response.json() throw, and so
\* does reading a property of null
searchAnimeTry(http) ==
  IF http.net = "fail" THEN Throw(<<>>)
  ELSE IF ~http.ok THEN Ret(<<>>)
  ELSE IF http.body.json # "object" THEN Throw(<<>>)
  ELSE IF http.body.success /\ http.body.present THEN Ret(http.body.animes)
  ELSE Ret(<<>>)
searchAnime(http) == Catch(searchAnimeTry(http), <<>>)
\* if (!keyword || keyword.trim() === "") return []
SearchSkipped(keyword) == keyword = <<>> \/ Trim(keyword) = <<>>

getBangumiTry(http) ==
  IF http.net = "fail" THEN Throw(NullBangumi)
  ELSE IF ~http.ok THEN Ret(NullBangumi)
  ELSE IF http.body.json # "object" THEN Throw(NullBangumi)
  ELSE IF http.body.success /\ ~http.body.bangumi.null THEN Ret(http.body.bangumi)
  ELSE Ret(NullBangumi)
getBangumi(http) == Catch(getBangumiTry(http), NullBangumi)

getCommentsTry(http) ==
  IF http.net = "fail" THEN Throw(<<>>)
  ELSE IF ~http.ok THEN Ret(<<>>)
  ELSE IF http.body.json # "object" THEN Throw(<<>>)
  ELSE IF http.body.present /\ Len(http.body.comments) > 0
  THEN IF \E i \in 1..Len(http.body.comments) : http.body.comments[i].p = Undefined
       THEN Throw(<<>>)
       ELSE Ret([i \in 1..Len(http.body.comments) |->
                   convertToDanmakuItem(http.body.comments[i])])
  ELSE Ret(<<>>)
getComments(http) == Catch(getCommentsTry(http), <<>>)

matchAnimeTry(http) ==
  IF http.net = "fail" THEN Throw(NullMatch)
  ELSE IF ~http.ok THEN Ret(NullMatch)
  ELSE IF http.body.json = "invalid" THEN Throw(NullMatch)
  ELSE Ret(http.body)
matchAnime(http) == Catch(matchAnimeTry(http), NullMatch)

(***************************************************************************)
(* autoLoadDanmaku, one action per await.                                  *)
(***************************************************************************)
Request(api, arg) == [api |-> api, arg |-> arg]
Reply(api, http, r) == [api |-> api, http |-> http, threw |-> r.threw, value |-> r.value]

NoResult ==
  [settled |-> "pending", success |-> FALSE, danmaku |-> <<>>,
   matchedTitle |-> NoTitle, episodeTitle |-> NoTitle, message |-> "none"]
Resolved(success, danmaku, matchedTitle, episodeTitle, message) ==
  [settled |-> "resolved", success |-> success, danmaku |-> danmaku,
   matchedTitle |-> matchedTitle, episodeTitle |-> episodeTitle, message |-> message]
Rejected == [NoResult EXCEPT !.settled = "rejected"]

EmptyTitle == Resolved(FALSE, <<>>, NoTitle, NoTitle, "emptyTitle")
NotFound == Resolved(FALSE, <<>>, NoTitle, NoTitle, "notFound")
AutoLoadFailed == Resolved(FALSE, <<>>, NoTitle, NoTitle, "autoLoadFailed")

\* the catch of autoLoadDanmaku
OuterCatch(thrown) == AutoLoadFailed

NoEpisode == Episode(0, NoTitle, Undefined)

AutoInit ==
  /\ videoTitle = <<>>
  /\ pc = "idle"
  /\ matchResult = NullMatch
  /\ animes = <<>>
  /\ targetEpisode = NoEpisode
  /\ requests = <<>>
  /\ replies = <<>>
  /\ result = NoResult

\* the call: up to `await matchAnime(videoTitle)`
autoLoadDanmaku(title) ==
  /\ pc = "idle"
  /\ videoTitle' = title
  /\ IF title = <<>> \/ Trim(title) = <<>>
     THEN /\ result' = EmptyTitle
          /\ pc' = "done"
          /\ UNCHANGED requests
     ELSE /\ pc' = "match"
          /\ requests' = Append(requests, Request("match", title))
          /\ UNCHANGED result
  /\ UNCHANGED <<matchResult, animes, targetEpisode, replies, supVars>>

\* a call of the exported function by a caller other than the ready handler
CallAutoLoad(title) == autoLoadDanmaku(title) /\ UNCHANGED overlayVars

NoStatus == [loading |-> FALSE, message |-> "", matchedTitle |-> NoTitle]
NoLoad == [art |-> 0, danmuku |-> <<>>]

OverlayInit ==
  /\ autoLoadAttempted = FALSE
  /\ autoLoadArt = 0
  /\ danmakuList = <<>>
  /\ autoLoadStatus = NoStatus
  /\ pluginLoad = NoLoad
  /\ statusTimer = FALSE

\* art.on("ready") of the player of session s, with the title prop
Ready(s, title) ==
  /\ sess[s].art = "live"
  /\ ~autoLoadAttempted /\ title # <<>>
  /\ autoLoadAttempted' = TRUE
  /\ autoLoadStatus' = [NoStatus EXCEPT !.loading = TRUE, !.message = "matching"]
  /\ autoLoadArt' = s
  /\ autoLoadDanmaku(title)
  /\ UNCHANGED <<danmakuList, pluginLoad, statusTimer, panelVars>>

\* a state update of a component that left the tree is dropped
SetState(old, new) == IF mounted THEN new ELSE old

\* autoLoadDanmaku(title).then((result) => ...)
AutoLoadThen ==
  /\ autoLoadArt # 0
  /\ pc = "done" /\ result.settled = "resolved"
  /\ autoLoadArt' = 0
  /\ statusTimer' = TRUE
  /\ IF result.success /\ Len(result.danmaku) > 0
     THEN /\ danmakuList' = SetState(danmakuList, result.danmaku)
          /\ autoLoadStatus' =
               SetState(autoLoadStatus,
                        [loading |-> FALSE, message |-> result.message,
                         matchedTitle |-> result.matchedTitle])
          /\ pluginLoad' = [art |-> autoLoadArt, danmuku |-> result.danmaku]
     ELSE /\ autoLoadStatus' =
               SetState(autoLoadStatus, [NoStatus EXCEPT !.message = result.message])
          /\ UNCHANGED <<danmakuList, pluginLoad>>
  /\ UNCHANGED <<autoLoadAttempted, videoTitle, pc, matchResult, animes,
                 targetEpisode, requests, replies, result, supVars, panelVars>>

\* the timer that clears the status message
StatusTimerFire ==
  /\ statusTimer
  /\ statusTimer' = FALSE
  /\ autoLoadStatus' = SetState(autoLoadStatus, NoStatus)
  /\ UNCHANGED <<autoLoadAttempted, autoLoadArt, danmakuList, pluginLoad,
                 videoTitle, pc, matchResult, animes, targetEpisode, requests,
                 replies, result, supVars, panelVars>>

\* bug: a match without an episode id is taken for a match
MutIsMatch(m) == m.json = "object" /\ m.success /\ m.isMatched

\* if (matchResult && matchResult.success && matchResult.isMatched && matchResult.episodeId)
IsMatch(m) == m.json = "object" /\ m.success /\ m.isMatched /\ m.episodeId # 0

\* after `await matchAnime(videoTitle)`
AfterMatchAnime(http) ==
  LET r == matchAnime(http)
      keyword == extractSearchKeyword(videoTitle)
  IN
  /\ pc = "match"
  /\ replies' = Append(replies, Reply("match", http, r))
  /\ IF r.threw
     THEN /\ result' = OuterCatch(r)
          /\ pc' = "done"
          /\ UNCHANGED <<matchResult, requests>>
     ELSE /\ matchResult' = r.value
          /\ IF IsMatch(r.value)
             THEN /\ pc' = "matchComments"
                  /\ requests' = Append(requests, Request("comment", r.value.episodeId))
                  /\ UNCHANGED result
             ELSE IF keyword # <<>> /\ ~SearchSkipped(keyword)
             THEN /\ pc' = "search"
                  /\ requests' = Append(requests, Request("search", keyword))
                  /\ UNCHANGED result
             ELSE /\ pc' = "done"
                  /\ result' = NotFound
                  /\ UNCHANGED requests
  /\ UNCHANGED <<videoTitle, animes, targetEpisode, supVars,
                 overlayVars>>

\* bug: the matched titles are left out of the result
MutMatchedResult(m, danmaku) ==
  IF Len(danmaku) > 0
  THEN Resolved(TRUE, danmaku, NoTitle, NoTitle, "loaded")
  ELSE Resolved(FALSE, <<>>, m.animeTitle, m.episodeTitle, "matchedNoComments")
\* bug: a match without comments is reported as no match at all
MutMatchedResultNotFound(m, danmaku) ==
  IF Len(danmaku) > 0
  THEN Resolved(TRUE, danmaku, m.animeTitle, m.episodeTitle, "loaded")
  ELSE NotFound
\* the result of the auto-match path
MatchedResult(m, danmaku) ==
  IF Len(danmaku) > 0
  THEN Resolved(TRUE, danmaku, m.animeTitle, m.episodeTitle, "loaded")
  ELSE Resolved(FALSE, <<>>, m.animeTitle, m.episodeTitle, "matchedNoComments")

\* after `await getComments(matchResult.episodeId)`
AfterMatchComments(http) ==
  LET r == getComments(http) IN
  /\ pc = "matchComments"
  /\ replies' = Append(replies, Reply("comment", http, r))
  /\ pc' = "done"
  /\ result' = IF r.threw THEN OuterCatch(r) ELSE MatchedResult(matchResult, r.value)
  /\ UNCHANGED <<videoTitle, matchResult, animes, targetEpisode, requests, supVars,
                 overlayVars>>

\* after `await searchAnime(keyword)`
AfterSearchAnime(http) ==
  LET r == searchAnime(http) IN
  /\ pc = "search"
  /\ replies' = Append(replies, Reply("search", http, r))
  /\ IF r.threw
     THEN /\ result' = OuterCatch(r)
          /\ pc' = "done"
          /\ UNCHANGED <<animes, requests>>
     ELSE /\ animes' = r.value
          /\ IF Len(r.value) > 0
             THEN /\ pc' = "bangumi"
                  /\ requests' = Append(requests, Request("bangumi", r.value[1].animeId))
                  /\ UNCHANGED result
             ELSE /\ pc' = "done"
                  /\ result' = NotFound
                  /\ UNCHANGED requests
  /\ UNCHANGED <<videoTitle, matchResult, targetEpisode, supVars,
                 overlayVars>>

\* the episode whose comments are asked for
SelectEpisode(title, episodes) ==
  LET m == episodeMatch(title)
      episodeNum == ParseInt(m)
      \* parseInt(ep.episodeNumber) === episodeNum
      StrictEquals(a, b) == a.kind = "num" /\ b.kind = "num" /\ a.val = b.val
      found == {i \in 1..Len(episodes) :
                  StrictEquals(ParseInt(episodes[i].episodeNumber), episodeNum)}
  IN IF m # <<>> /\ found # {}
     THEN episodes[CHOOSE i \in found : \A j \in found : i <= j]
     ELSE episodes[1]

\* after `await getBangumi(animes[0].animeId)`
AfterGetBangumi(http) ==
  LET r == getBangumi(http)
      bangumi == r.value
  IN
  /\ pc = "bangumi"
  /\ replies' = Append(replies, Reply("bangumi", http, r))
  /\ IF r.threw \/ (~bangumi.null /\ ~bangumi.hasEpisodes)
     THEN /\ result' = OuterCatch(r)
          /\ pc' = "done"
          /\ UNCHANGED <<targetEpisode, requests>>
     ELSE IF ~bangumi.null /\ Len(bangumi.episodes) > 0
     THEN /\ targetEpisode' = SelectEpisode(videoTitle, bangumi.episodes)
          /\ pc' = "comments"
          /\ requests' = Append(requests, Request("comment", targetEpisode'.episodeId))
          /\ UNCHANGED result
     ELSE /\ pc' = "done"
          /\ result' = NotFound
          /\ UNCHANGED <<targetEpisode, requests>>
  /\ UNCHANGED <<videoTitle, matchResult, animes, supVars,
                 overlayVars>>

\* the result of the search path
SearchedResult(danmaku) ==
  IF Len(danmaku) > 0
  THEN Resolved(TRUE, danmaku, animes[1].animeTitle, targetEpisode.episodeTitle,
                "loadedBySearch")
  ELSE NotFound

\* after `await getComments(targetEpisode.episodeId)`
AfterGetComments(http) ==
  LET r == getComments(http) IN
  /\ pc = "comments"
  /\ replies' = Append(replies, Reply("comment", http, r))
  /\ pc' = "done"
  /\ result' = IF r.threw THEN OuterCatch(r) ELSE SearchedResult(r.value)
  /\ UNCHANGED <<videoTitle, matchResult, animes, targetEpisode, requests, supVars,
                 overlayVars>>

\* the catalog answers the ready handler's auto-load can meet
NetFail == [net |-> "fail", ok |-> FALSE, body |-> NoBody]
Ok(body) == [net |-> "ok", ok |-> TRUE, body |-> body]

(***************************************************************************)
(* DanmakuPanel, the manual search: the handlers of the panel and the      *)
(* continuations of their catalog requests.                                *)
(***************************************************************************)
NoAnime == Anime(0, NoTitle)
NoCount == -1
PanelKeywords == {<<>>, <<" ">>, <<"A">>, <<"B">>, <<"C">>}

\* everything the panel never writes except through onDanmakuLoad
resolverVars == <<videoTitle, pc, matchResult, animes, targetEpisode, requests,
                  replies, result>>

\* the catalog the panel talks to: what it holds for a keyword and for a series
CatalogSearch(keyword) ==
  IF keyword = <<"A">> THEN <<Anime(11, "animeA"), Anime(22, "animeB")>>
  ELSE IF keyword = <<"B">> THEN <<Anime(22, "animeB")>>
  ELSE <<>>
CatalogEpisodes(animeId) ==
  IF animeId = 11 THEN <<Ep1, Ep2>>
  ELSE IF animeId = 22 THEN <<Ep7b>>
  ELSE <<>>

\* the responses a request of the panel can get: a failure, or the answer of
\* the catalog to that request
PanelResponses(call) ==
  {NetFail}
  \cup {Ok([json |-> "object", success |-> TRUE, present |-> TRUE,
            animes |-> CatalogSearch(call.arg)]) : x \in {y \in {1} : call.api = "search"}}
  \cup {Ok([json |-> "object", success |-> TRUE,
            bangumi |-> [null |-> FALSE, hasEpisodes |-> TRUE,
                         episodes |-> CatalogEpisodes(call.arg)]]) :
          x \in {y \in {1} : call.api = "bangumi"}}
  \cup {Ok([json |-> "object", present |-> TRUE, comments |-> <<Comment1>>]) :
          x \in {y \in {1} : call.api = "comment"}}

Listed(list) == {list[i] : i \in 1..Len(list)}

\* the series, the episodes and the requests the panel can meet
PanelSeries == UNION {Listed(CatalogSearch(k)) : k \in PanelKeywords}
PanelEpisodes == UNION {Listed(CatalogEpisodes(a.animeId)) : a \in PanelSeries}
AllPanelResponses ==
  UNION {PanelResponses(c) :
           c \in {Request("search", k) : k \in PanelKeywords}
                 \cup {Request("bangumi", a.animeId) : a \in PanelSeries}
                 \cup {Request("comment", e.episodeId) : e \in PanelEpisodes}}

RemoveAt(calls, i) == SubSeq(calls, 1, i - 1) \o SubSeq(calls, i + 1, Len(calls))

PanelInit ==
  /\ searchKeyword = <<>>
  /\ panelAnimes = <<>>
  /\ selectedAnime = NoAnime
  /\ panelEpisodes = <<>>
  /\ selectedEpisode = NoEpisode
  /\ isSearching = FALSE
  /\ isLoadingEpisodes = FALSE
  /\ isLoadingDanmaku = FALSE
  /\ danmakuCount = NoCount
  /\ panelError = "none"
  /\ showAnimeList = FALSE
  /\ submitted = <<>>
  /\ panelCalls = <<>>

\* onChange of the keyword input
TypeKeyword(keyword) ==
  /\ keyword # searchKeyword
  /\ searchKeyword' = keyword
  /\ UNCHANGED <<panelAnimes, selectedAnime, panelEpisodes, selectedEpisode, isSearching,
                 isLoadingEpisodes, isLoadingDanmaku, danmakuCount, panelError,
                 showAnimeList, submitted, panelCalls>>
  /\ UNCHANGED <<supVars, resolverVars, readyVars>>

\* handleSearch up to `await searchAnime(searchKeyword)`: the search button, or
\* the Enter key through handleKeyDown, which does not look at isSearching
handleSearch ==
  /\ Trim(searchKeyword) # <<>>
  /\ Len(panelCalls) < MaxPanelCalls
  /\ isSearching' = TRUE
  /\ panelError' = "none"
  /\ panelAnimes' = <<>>
  /\ selectedAnime' = NoAnime
  /\ panelEpisodes' = <<>>
  /\ selectedEpisode' = NoEpisode
  /\ danmakuCount' = NoCount
  /\ submitted' = searchKeyword
  /\ panelCalls' = Append(panelCalls, Request("search", searchKeyword))
  /\ UNCHANGED <<searchKeyword, isLoadingEpisodes, isLoadingDanmaku, showAnimeList>>
  /\ UNCHANGED <<supVars, resolverVars, readyVars>>

\* handleSearch after `await searchAnime(searchKeyword)`
SearchReturn(i, http) ==
  LET results == searchAnime(http).value IN
  /\ i \in 1..Len(panelCalls) /\ panelCalls[i].api = "search"
  /\ http \in PanelResponses(panelCalls[i])
  /\ panelCalls' = RemoveAt(panelCalls, i)
  /\ IF Len(results) = 0
     THEN /\ panelError' = "noAnime"
          /\ UNCHANGED <<panelAnimes, showAnimeList>>
     ELSE /\ panelAnimes' = results
          /\ showAnimeList' = TRUE
          /\ UNCHANGED panelError
  /\ isSearching' = FALSE
  /\ UNCHANGED <<searchKeyword, selectedAnime, panelEpisodes, selectedEpisode,
                 isLoadingEpisodes, isLoadingDanmaku, danmakuCount, submitted>>
  /\ UNCHANGED <<supVars, resolverVars, readyVars>>

\* the header of the selected series opens and closes the series list
ToggleAnimeList ==
  /\ selectedAnime # NoAnime
  /\ showAnimeList' = ~showAnimeList
  /\ UNCHANGED <<searchKeyword, panelAnimes, selectedAnime, panelEpisodes, selectedEpisode,
                 isSearching, isLoadingEpisodes, isLoadingDanmaku, danmakuCount,
                 panelError, submitted, panelCalls>>
  /\ UNCHANGED <<supVars, resolverVars, readyVars>>

\* handleSelectAnime up to `await getBangumi(anime.animeId)`: a click on a
\* series of the list that is shown
handleSelectAnime(anime) ==
  /\ showAnimeList /\ anime \in Listed(panelAnimes)
  /\ Len(panelCalls) < MaxPanelCalls
  /\ selectedAnime' = anime
  /\ showAnimeList' = FALSE
  /\ isLoadingEpisodes' = TRUE
  /\ panelEpisodes' = <<>>
  /\ selectedEpisode' = NoEpisode
  /\ danmakuCount' = NoCount
  /\ panelError' = "none"
  /\ panelCalls' = Append(panelCalls, Request("bangumi", anime.animeId))
  /\ UNCHANGED <<searchKeyword, panelAnimes, isSearching, isLoadingDanmaku, submitted>>
  /\ UNCHANGED <<supVars, resolverVars, readyVars>>

\* handleSelectAnime after `await getBangumi(anime.animeId)`
BangumiReturn(i, http) ==
  LET bangumi == getBangumi(http).value IN
  /\ i \in 1..Len(panelCalls) /\ panelCalls[i].api = "bangumi"
  /\ http \in PanelResponses(panelCalls[i])
  /\ panelCalls' = RemoveAt(panelCalls, i)
  /\ IF ~bangumi.null /\ ~bangumi.hasEpisodes
     THEN /\ panelError' = "episodesFailed"
          /\ UNCHANGED <<panelEpisodes, selectedEpisode>>
     ELSE IF ~bangumi.null /\ Len(bangumi.episodes) > 0
     THEN /\ panelEpisodes' = bangumi.episodes
          /\ selectedEpisode' = bangumi.episodes[1]
          /\ UNCHANGED panelError
     ELSE /\ panelError' = "noEpisodes"
          /\ UNCHANGED <<panelEpisodes, selectedEpisode>>
  /\ isLoadingEpisodes' = FALSE
  /\ UNCHANGED <<searchKeyword, panelAnimes, selectedAnime, isSearching,
                 isLoadingDanmaku, danmakuCount, showAnimeList, submitted>>
  /\ UNCHANGED <<supVars, resolverVars, readyVars>>

\* a click on an episode of the list, which is shown once it is loaded
ClickEpisode(episode) ==
  /\ ~isLoadingEpisodes /\ episode \in Listed(panelEpisodes)
  /\ episode # selectedEpisode
  /\ selectedEpisode' = episode
  /\ UNCHANGED <<searchKeyword, panelAnimes, selectedAnime, panelEpisodes, isSearching,
                 isLoadingEpisodes, isLoadingDanmaku, danmakuCount, panelError,
                 showAnimeList, submitted, panelCalls>>
  /\ UNCHANGED <<supVars, resolverVars, readyVars>>

\* handleLoadDanmaku up to `await getComments(selectedEpisode.episodeId)`
handleLoadDanmaku ==
  /\ selectedEpisode # NoEpisode /\ panelEpisodes # <<>> /\ ~isLoadingDanmaku
  /\ Len(panelCalls) < MaxPanelCalls
  /\ isLoadingDanmaku' = TRUE
  /\ panelError' = "none"
  /\ panelCalls' = Append(panelCalls, Request("comment", selectedEpisode.episodeId))
  /\ UNCHANGED <<searchKeyword, panelAnimes, selectedAnime, panelEpisodes, selectedEpisode,
                 isSearching, isLoadingEpisodes, danmakuCount, showAnimeList, submitted>>
  /\ UNCHANGED <<supVars, resolverVars, readyVars>>

\* handleLoadDanmaku after the await, with onDanmakuLoad = handleDanmakuLoad of
\* the player
CommentsReturn(i, http) ==
  LET danmaku == getComments(http).value IN
  /\ i \in 1..Len(panelCalls) /\ panelCalls[i].api = "comment"
  /\ http \in PanelResponses(panelCalls[i])
  /\ panelCalls' = RemoveAt(panelCalls, i)
  /\ danmakuCount' = Len(danmaku)
  /\ danmakuList' = danmaku
  /\ pluginLoad' = IF artRef # 0 THEN [art |-> artRef, danmuku |-> danmaku]
                   ELSE pluginLoad
  /\ isLoadingDanmaku' = FALSE
  /\ UNCHANGED <<searchKeyword, panelAnimes, selectedAnime, panelEpisodes, selectedEpisode,
                 isSearching, isLoadingEpisodes, panelError, showAnimeList, submitted>>
  /\ UNCHANGED <<supVars, resolverVars, autoLoadAttempted, autoLoadArt,
                 autoLoadStatus, statusTimer>>

Init == SupInit /\ AutoInit /\ OverlayInit /\ PanelInit

\* the player with everything its surroundings can do to it
Next ==
  \/ ClientMount
  \/ RunEffect
  \/ UrlChange
  \/ Unmount
  \/ handleRetry
  \/ \E s \in Sessions, r \in ProbeResults : ProbeReturn(s, r)
  \/ \E s \in Sessions : ImportReturn(s)
  \/ \E s \in Sessions : ImportFail(s)
  \/ \E s \in Sessions : TypeCallback(s)
  \/ \E s \in Sessions : VideoError(s)
  \/ \E h \in Sessions, ev \in HlsEvents : HlsErrorWithin(MaxCountedLife, h, ev)
  \/ \E t \in timers : TimerFire(t)

Spec == Init /\ [][Next]_vars

\* the player while it stays in the tree and plays one URL, its modules load
\* and the video element reports no error
NextSteady ==
  \/ ClientMount
  \/ RunEffect
  \/ handleRetry
  \/ \E s \in Sessions, r \in ProbeResults : ProbeReturn(s, r)
  \/ \E s \in Sessions : ImportReturn(s)
  \/ \E s \in Sessions : TypeCallback(s)
  \/ \E h \in Sessions, ev \in HlsEvents : handleHlsError(h, ev)
  \/ \E t \in timers : TimerFire(t)

SpecSteady == Init /\ [][NextSteady]_vars

\* one call of autoLoadDanmaku against a catalog service that may answer
\* anything
NextAuto ==
  \/ \E title \in { <<>>,
                     <<" ", " ">>,
                     <<"A", "b">>,
                     <<"A", "b", " ", "E", "0", "7", ".", "m", "k", "v">>,
                     <<"A", "b", " ", "S", "0", "1", "E", "0", "2">>,
                     <<"A", "b", Di, "3", JiEp>>,
                     <<"A", "b", " ", "E", "P", "1", "2", " ", "1", "0", "8", "0", "p">>,
                     <<"E", "0", "7">>,
                     <<"b", "e", "2", " ", "E", "0", "7">> } : CallAutoLoad(title)
  \/ \E http \in Responses(MatchBodies) : AfterMatchAnime(http)
  \/ \E http \in Responses(CommentBodies) : AfterMatchComments(http)
  \/ \E http \in Responses(SearchBodies) : AfterSearchAnime(http)
  \/ \E http \in Responses(BangumiBodies) : AfterGetBangumi(http)
  \/ \E http \in Responses(CommentBodies) : AfterGetComments(http)

SpecAuto == Init /\ [][NextAuto]_vars


\* the player from mount to unmount together with the auto-load its ready
\* handler starts
NextReady ==
  \/ ClientMount
  \/ RunEffect
  \/ UrlChange
  \/ Unmount
  \/ handleRetry
  \/ \E s \in Sessions, r \in ProbeResults : ProbeReturn(s, r)
  \/ \E s \in Sessions : ImportReturn(s)
  \/ \E s \in Sessions : TypeCallback(s)
  \/ \E s \in Sessions : VideoError(s)
  \/ \E s \in Sessions, title \in {<<" ", " ">>, <<"A", "b">>} : Ready(s, title)
  \/ \E http \in {NetFail,
                   Ok([json |-> "object", success |-> TRUE, isMatched |-> TRUE,
                       episodeId |-> 55, animeTitle |-> "matchedAnime",
                       episodeTitle |-> "matchedEpisode"])} : AfterMatchAnime(http)
  \/ \E http \in {NetFail, Ok([json |-> "object", present |-> TRUE,
                               comments |-> <<Comment1>>])} : AfterMatchComments(http)
  \/ \E http \in {NetFail} : AfterSearchAnime(http)
  \/ AutoLoadThen
  \/ StatusTimerFire

SpecReady == Init /\ [][NextReady]_vars

\* the search panel against a catalog that answers each request with what it
\* holds, or not at all
NextPanel ==
  \/ \E keyword \in PanelKeywords : TypeKeyword(keyword)
  \/ handleSearch
  \/ \E i \in 1..MaxPanelCalls, http \in AllPanelResponses : SearchReturn(i, http)
  \/ ToggleAnimeList
  \/ \E anime \in PanelSeries : handleSelectAnime(anime)
  \/ \E i \in 1..MaxPanelCalls, http \in AllPanelResponses : BangumiReturn(i, http)
  \/ \E episode \in PanelEpisodes : ClickEpisode(episode)
  \/ handleLoadDanmaku
  \/ \E i \in 1..MaxPanelCalls, http \in AllPanelResponses : CommentsReturn(i, http)

SpecPanel == Init /\ [][NextPanel]_vars

(***************************************************************************)
(* Properties of the playback supervisor.                                  *)
(***************************************************************************)
RestartOps == {"mount", "effect", "url", "retry"}

\* C1: when the probe of a session that is still alive returns the failure
\* 'cors', useDirectPlay becomes false and playMode "proxy", the step issues no
\* engine command and the session ends there, without player or engine (so it
\* never issues loadSource or attachMedia); on any other verdict, failures
\* 'expired' and 'other' included, the session goes on to load the player under
\* its direct closure and the transport is left alone.
C1_CorsProbeForcesProxy ==
  [][\A s \in Sessions, r \in ProbeResults :
       (isMounted /\ ProbeReturn(s, r)) =>
         IF ~r.success /\ r.reason = "cors"
         THEN /\ ~useDirectPlay'
              /\ playMode' = "proxy"
              /\ last'.cmds = {}
              /\ sess'[s] = NoSession
         ELSE /\ sess'[s].stage = "import"
              /\ sess'[s].direct
              /\ UNCHANGED <<useDirectPlay, playMode, retryCount>>]_vars

C1_Witness ==
  /\ last.op = "probeSwitch"
  /\ ~useDirectPlay
  /\ playMode = "proxy"
  /\ hlsRef = 0

\* C2: once useDirectPlay is false it stays false, playMode stays "proxy", and
\* every session started from then on is started proxied, whatever happens
\* (a user retry included).
C2_ProxiedStaysProxied ==
  [][/\ ~useDirectPlay => ~useDirectPlay'
     /\ playMode = "proxy" => (playMode' = "proxy" /\ ~useDirectPlay')
     /\ (~useDirectPlay /\ last'.op \in RestartOps) => ~sess'[cur'].direct]_vars

C2_Witness ==
  /\ ~useDirectPlay
  /\ playMode = "proxy"
  /\ cur # 0 /\ ~sess[cur].direct /\ sess[cur].hls = "live"
  /\ last.op = "timer" /\ last.cmds # {}

\* a fatal error of type network that is no key, manifest or fragment-404 error
NetworkFatal(ev) ==
  /\ ev.fatal /\ ev.type = "networkError"
  /\ ev.details \notin {"keyLoadError", "keyLoadTimeOut", "manifestLoadError"}
  /\ ~(ev.details = "fragLoadError" /\ ev.code = 404)

\* C3: a fatal network error makes the network counter k one larger; for
\* k = 1..3 nothing is surfaced, no command is issued and exactly one timer is
\* added, a startLoad of that engine after k seconds; for k = 4 the error
\* 'network' with canRetry true is surfaced and stopLoad is issued, and no
\* timer is added.
C3_NetworkRetryThenFatal ==
  [][\A h \in Sessions, ev \in HlsEvents :
       (NetworkFatal(ev) /\ handleHlsError(h, ev)) =>
         /\ networkRetryCount' = networkRetryCount + 1
         /\ networkRetryCount' \in 1..3 =>
              /\ last'.surfaced = NoError
              /\ error' = error
              /\ last'.cmds = {}
              /\ timers' \ timers =
                   {Timer(h, "startLoad", networkRetryCount', 1000 * networkRetryCount')}
              /\ timers \subseteq timers'
         /\ networkRetryCount' = 4 =>
              /\ last'.surfaced = PlayerError("network", TRUE)
              /\ error' = PlayerError("network", TRUE)
              /\ last'.cmds = {Cmd(h, "stopLoad")}
              /\ timers' = timers]_vars

C3_Witness ==
  /\ networkRetryCount = 4
  /\ last.surfaced = PlayerError("network", TRUE)
  /\ last.cmds = {Cmd(last.s, "stopLoad")}
  /\ retryCount = 1

\* C4: a manifest-load error with response code 403 or 404 surfaces the error
\* 'manifest' with canRetry false and calls onError, under a direct and under a
\* proxied engine and whatever the counters are; it changes no counter, no
\* transport state and no retryCount, adds no timer and issues no command.
C4_ManifestForbiddenIsFatal ==
  [][\A h \in Sessions, ev \in HlsEvents :
       (/\ ev.details = "manifestLoadError"
        /\ ev.code \in {403, 404}
        /\ handleHlsError(h, ev)) =>
         /\ last'.surfaced = PlayerError("manifest", FALSE)
         /\ error' = PlayerError("manifest", FALSE)
         /\ last'.notified
         /\ last'.cmds = {}
         /\ UNCHANGED <<useDirectPlay, playMode, retryCount, effectPending, timers,
                        networkRetryCount, mediaRetryCount, keyErrorCount>>]_vars

C4_Witness ==
  /\ last.surfaced = PlayerError("manifest", FALSE)
  /\ last.op = "hlsError"
  /\ ~sess[last.s].direct
  /\ networkRetryCount = 3 /\ mediaRetryCount = 2 /\ keyErrorCount = 1

\* C5: a manifest-load error without response code on an engine that plays
\* direct sets useDirectPlay false and playMode "proxy", bumps retryCount so
\* that the init effect re-runs, and surfaces nothing; on an engine that plays
\* through the proxy it changes no transport state and no retryCount and
\* surfaces the error 'manifest' with canRetry true.
C5_StatuslessManifestSwitchesOnce ==
  [][\A h \in Sessions, ev \in HlsEvents :
       (/\ ev.details = "manifestLoadError"
        /\ ev.code = 0
        /\ isMounted
        /\ HlsErrorWithin(MaxCountedLife, h, ev)) =>
         IF sess[h].direct
         THEN /\ ~useDirectPlay'
              /\ playMode' = "proxy"
              /\ retryCount' = retryCount + 1
              /\ effectPending'
              /\ last'.surfaced = NoError
              /\ error' = error
         ELSE /\ UNCHANGED <<useDirectPlay, playMode, retryCount, effectPending>>
              /\ last'.surfaced = PlayerError("manifest", TRUE)
              /\ error' = PlayerError("manifest", TRUE)]_vars

C5_Witness ==
  /\ last.op = "hlsError"
  /\ last.surfaced = PlayerError("manifest", TRUE)
  /\ ~sess[last.s].direct
  /\ retryCount = 1

\* C6: in a step that leaves retryCount alone no retry counter decreases, and
\* a step in which a counter decreases bumps retryCount by one.
C6_CountersMonotonePerGeneration ==
  [][/\ retryCount' = retryCount =>
          /\ networkRetryCount' >= networkRetryCount
          /\ mediaRetryCount' >= mediaRetryCount
          /\ keyErrorCount' >= keyErrorCount
     /\ (\/ networkRetryCount' < networkRetryCount
         \/ mediaRetryCount' < mediaRetryCount
         \/ keyErrorCount' < keyErrorCount) => retryCount' = retryCount + 1]_vars

C6_Witness ==
  /\ last.op = "retry"
  /\ retryCount = 2
  /\ networkRetryCount = 0 /\ mediaRetryCount = 0 /\ keyErrorCount = 0

\* C7: a user retry bumps retryCount by exactly one, zeroes the three counters
\* and clears the error.
C7_RetryResetsGeneration ==
  [][last'.op = "retry" =>
       /\ retryCount' = retryCount + 1
       /\ networkRetryCount' = 0
       /\ mediaRetryCount' = 0
       /\ keyErrorCount' = 0
       /\ error' = NoError]_vars

C7_Witness ==
  /\ last.op = "retry"
  /\ retryCount = 1
  /\ networkRetryCount = 0 /\ mediaRetryCount = 0 /\ keyErrorCount = 0
  /\ error = NoError
  /\ useDirectPlay

(***************************************************************************)
(* Properties of the danmaku resolver.                                     *)
(***************************************************************************)
\* what the service sent, read off the response itself
Delivered(http) == http.net = "ok" /\ http.ok /\ http.body.json = "object"
MatchReported(http) ==
  /\ Delivered(http)
  /\ http.body.success /\ http.body.isMatched /\ http.body.episodeId # 0
CommentsReceived(http) ==
  IF Delivered(http) /\ http.body.present THEN http.body.comments ELSE <<>>
WellFormed(comments) == \A i \in 1..Len(comments) : comments[i].p # Undefined

\* C8: when the match response reports a match (success, isMatched, an
\* episodeId that is present and not 0), the only requests of the run are the
\* match request and one comment request for that episodeId; and when that
\* comment response carries n >= 1 comments, each with its p field, the run
\* ends with success = true, n overlay items whose texts are the texts of the
\* comments in the order received, and the titles of the match response.
C8_AutoMatchLoads ==
  (Len(replies) >= 1 /\ MatchReported(replies[1].http)) =>
    /\ requests = <<Request("match", videoTitle),
                    Request("comment", replies[1].http.body.episodeId)>>
    /\ Len(replies) = 2 =>
         LET received == CommentsReceived(replies[2].http) IN
         (Len(received) >= 1 /\ WellFormed(received)) =>
           /\ pc = "done"
           /\ result.settled = "resolved"
           /\ result.success
           /\ Len(result.danmaku) = Len(received)
           /\ \A i \in 1..Len(received) : result.danmaku[i].text = received[i].m
           /\ result.matchedTitle = replies[1].http.body.animeTitle
           /\ result.episodeTitle = replies[1].http.body.episodeTitle

C8_Witness ==
  /\ pc = "done"
  /\ Len(replies) = 2
  /\ MatchReported(replies[1].http)
  /\ CommentsReceived(replies[2].http) = <<Comment2, Comment1>>
  /\ result.success
  /\ Len(result.danmaku) = 2
  /\ result.danmaku[1].text = "m2"
  /\ result.matchedTitle = "matchedAnime"

\* the episode number a reader finds in each sample title (none: the empty
\* set), and the number each sample episode carries (none: the empty set)
TitleToken(title) ==
  CASE title = <<"A", "b", " ", "E", "0", "7", ".", "m", "k", "v">> -> {7}
    [] title = <<"A", "b", " ", "S", "0", "1", "E", "0", "2">> -> {2}
    [] title = <<"A", "b", Di, "3", JiEp>> -> {3}
    [] title = <<"A", "b", " ", "E", "P", "1", "2", " ", "1", "0", "8", "0", "p">> -> {12}
    [] title = <<"E", "0", "7">> -> {7}
    [] title = <<"b", "e", "2", " ", "E", "0", "7">> -> {2}
    [] OTHER -> {}
EpisodeNumberOf(ep) ==
  CASE ep = Ep1 -> {1}
    [] ep = Ep2 -> {2}
    [] ep = Ep3 -> {3}
    [] ep = Ep7 -> {7}
    [] ep = Ep7b -> {7}
    [] ep = Ep12 -> {12}
    [] OTHER -> {}
EpisodesListed(http) ==
  IF Delivered(http) /\ http.body.success /\ ~http.body.bangumi.null
     /\ http.body.bangumi.hasEpisodes
  THEN http.body.bangumi.episodes
  ELSE <<>>

FailedResponse(http) == http.net = "fail" \/ ~http.ok \/ http.body.json = "invalid"
EmptyValue(api) ==
  CASE api = "match" -> NullMatch
    [] api = "search" -> <<>>
    [] api = "bangumi" -> NullBangumi
    [] api = "comment" -> <<>>
\* the awaits of autoLoadDanmaku and the request each one waits for
Awaited ==
  CASE pc = "match" -> "match"
    [] pc = "matchComments" -> "comment"
    [] pc = "search" -> "search"
    [] pc = "bangumi" -> "bangumi"
    [] pc = "comments" -> "comment"
    [] OTHER -> "none"

\* C10: no client function throws, and on a network failure, a status outside
\* 2xx or a body that does not parse it returns its empty value ([] or null);
\* the promise of autoLoadDanmaku is never rejected: whatever the responses,
\* a run that has not ended waits for the one request it sent last, it takes
\* at most four requests, and it ends resolved, every request answered, with a
\* result whose overlay is non-empty exactly when success is true.
C10_NoExceptionCrosses ==
  /\ \A i \in 1..Len(replies) :
       /\ ~replies[i].threw
       /\ FailedResponse(replies[i].http) => replies[i].value = EmptyValue(replies[i].api)
  /\ result.settled # "rejected"
  /\ Len(requests) <= 4
  /\ pc \notin {"idle", "done"} =>
       /\ result.settled = "pending"
       /\ Len(requests) = Len(replies) + 1
       /\ requests[Len(requests)].api = Awaited
  /\ pc = "done" =>
       /\ result.settled = "resolved"
       /\ Len(replies) = Len(requests)
       /\ result.success <=> result.danmaku # <<>>

C10_Witness ==
  /\ pc = "done"
  /\ Len(replies) = 4
  /\ replies[1].http.net = "fail"
  /\ ~replies[1].threw
  /\ replies[1].value = NullMatch
  /\ replies[4].http.ok /\ replies[4].http.body.json = "invalid"
  /\ replies[4].value = <<>>
  /\ result = NotFound

(***************************************************************************)
(* Properties of the conversion of comments.                               *)
(***************************************************************************)
\* the comments of a response and the items getComments made of them, when
\* the response carries comments that all have their p field
ConvertedOf(reply) ==
  IF reply.api = "comment" /\ CommentsReceived(reply.http) # <<>>
     /\ WellFormed(CommentsReceived(reply.http))
  THEN {<<CommentsReceived(reply.http)[j], reply.value[j]>> :
          j \in 1..Len(CommentsReceived(reply.http))}
  ELSE {}
Converted == UNION {ConvertedOf(replies[i]) : i \in 1..Len(replies)}

White == <<"#", "F", "F", "F", "F", "F", "F">>
\* the colour the claim gives each sample colour token
ClaimedColor(cl) ==
  CASE cl = <<"1", "6", "7", "7", "7", "2", "1", "5">> -> White
    [] cl = <<"0">> -> <<"#", "0", "0", "0", "0", "0", "0">>
    [] cl = <<"2", "5", "5">> -> <<"#", "0", "0", "0", "0", "F", "F">>
    [] OTHER -> White

\* C11 (as claimed): the colour of an item is '#' and the six-digit upper-case
\* hexadecimal value of its colour field when that field is an integer in
\* 0..16777215 (16777215 gives #FFFFFF, 0 gives #000000), and white only
\* when the field does not parse.
C11_ColorConversion ==
  \A c \in Converted : \A tk \in TimeTokens, md \in ModeTokens, cl \in ColorTokens :
    c[1].p = Packed(tk, md, cl) => c[2].color = ClaimedColor(cl)

\* the mode the claim gives each sample mode token: 1 top, 2 bottom, 0 scroll
ClaimedMode(md) ==
  CASE md = <<"5">> -> 1
    [] md = <<"4">> -> 2
    [] OTHER -> 0

\* C12: mode token 5 gives top (1), 4 gives bottom (2), and 1, another
\* integer, a token that is no number, an empty field and a field cut off the
\* end of p all give scroll (0).
C12_ModeMapping ==
  \A c \in Converted :
    /\ \A tk \in TimeTokens, md \in ModeTokens, cl \in ColorTokens :
         c[1].p = Packed(tk, md, cl) => c[2].mode = ClaimedMode(md)
    /\ c[1].p \in {<<>>, <<"1", "2", ".", "5">>} => c[2].mode = 0
    /\ c[1].p = <<"1", "2", ".", "5", ",", "5">> => c[2].mode = 1

C12_Witness ==
  /\ \E c \in Converted : c[1].p = Packed(<<"0">>, <<"5">>, <<"x">>) /\ c[2].mode = 1
  /\ pc = "done"
  /\ result.success

\* a colour of the form #RRGGBB
IsColor(color) ==
  /\ Len(color) = 7
  /\ color[1] = "#"
  /\ \A k \in 2..7 : \E d \in 1..16 : HexDigits[d] = color[k]
NotNumeric == {<<"x">>, <<>>}
Plain == <<"1">>

\* C13: whatever tokens p carries, and however many of its fields are cut
\* off, the item has the text of the comment, a mode in {0, 1, 2} and a
\* colour of the form #RRGGBB; a time, mode or colour token that is no number
\* (or is missing) gives that field its default (comment.t, scroll, white);
\* and each field of the item is what it is when the other two tokens are
\* replaced by the token 1.
C13_TotalOverMalformed ==
  \A c \in Converted :
    /\ c[2].text = c[1].m
    /\ c[2].mode \in {0, 1, 2}
    /\ IsColor(c[2].color)
    /\ \A tk \in TimeTokens, md \in ModeTokens, cl \in ColorTokens :
         c[1].p = Packed(tk, md, cl) =>
           /\ tk \in NotNumeric => c[2].time = c[1].t
           /\ md \in NotNumeric => c[2].mode = 0
           /\ cl \in NotNumeric => c[2].color = White
           /\ convertToDanmakuItem(RawComment(Packed(tk, Plain, Plain), c[1].m, c[1].t)).time
                = c[2].time
           /\ convertToDanmakuItem(RawComment(Packed(Plain, md, Plain), c[1].m, c[1].t)).mode
                = c[2].mode
           /\ convertToDanmakuItem(RawComment(Packed(Plain, Plain, cl), c[1].m, c[1].t)).color
                = c[2].color
    /\ c[1].p = <<>> => (c[2].time = c[1].t /\ c[2].mode = 0 /\ c[2].color = White)
    /\ c[1].p = <<"1", "2", ".", "5">> =>
         (c[2].time = Num(12500) /\ c[2].mode = 0 /\ c[2].color = White)
    /\ c[1].p = <<"1", "2", ".", "5", ",", "5">> =>
         (c[2].time = Num(12500) /\ c[2].mode = 1 /\ c[2].color = White)

C13_Witness ==
  /\ \E c \in Converted :
       /\ c[1].p = <<"1", "2", ".", "5", ",", "5">>
       /\ c[2].mode = 1 /\ c[2].color = White /\ c[2].text = "m"
  /\ pc = "done"

(***************************************************************************)
(* Properties of the handling of stream errors.                            *)
(***************************************************************************)
\* what a step of handleHlsError was seen to do
NoAction == [kind |-> "none", err |-> NoError]
Surface(type, canRetry) == [kind |-> "surface", err |-> PlayerError(type, canRetry)]
ObservedAction ==
  IF last'.surfaced # NoError THEN [kind |-> "surface", err |-> last'.surfaced]
  ELSE IF retryCount' # retryCount THEN [NoAction EXCEPT !.kind = "switch"]
  ELSE IF timers' # timers THEN [NoAction EXCEPT !.kind = "retry"]
  ELSE NoAction

\* the action for event ev on an engine of transport direct, when net, media
\* and key errors were counted before: first match wins
ActionFor(ev, direct, net, media, key) ==
  IF ev.details \in {"keyLoadError", "keyLoadTimeOut"}
  THEN IF key + 1 > 5 THEN Surface("key", FALSE) ELSE NoAction
  ELSE IF ev.details = "manifestLoadError"
  THEN IF direct /\ ev.code = 0 THEN [NoAction EXCEPT !.kind = "switch"]
       ELSE Surface("manifest", ev.code \notin {403, 404})
  ELSE IF ev.details = "fragLoadError" /\ ev.code = 404 THEN Surface("fragment", FALSE)
  ELSE IF ~ev.fatal THEN NoAction
  ELSE IF ev.type = "networkError"
  THEN IF net + 1 > 3 THEN Surface("network", TRUE) ELSE [NoAction EXCEPT !.kind = "retry"]
  ELSE IF ev.type = "mediaError"
  THEN IF media + 1 > 2 THEN Surface("media", FALSE) ELSE [NoAction EXCEPT !.kind = "retry"]
  ELSE Surface("unknown", TRUE)

\* C14 (as claimed): what the handler does with an event does not depend on
\* how often events were handled before: it is what the handler does with
\* that event when nothing was counted yet.
C14_SameOutcomeEveryTime ==
  [][last'.op = "hlsError" => \A h \in {last'.s}, ev \in HlsEvents :
       handleHlsError(h, ev) => ObservedAction = ActionFor(ev, sess[h].direct, 0, 0, 0)]_vars

\* C14 (amended): what the handler does with an event is fixed by the event,
\* the transport of the engine and the number of errors of the event's
\* category counted so far: below the ceiling of the category always the
\* same action, beyond it always the fatal error of the category; the
\* counters of the other categories do not matter and are left alone.
C14_OutcomeByEventAndCount ==
  [][last'.op = "hlsError" => \A h \in {last'.s}, ev \in HlsEvents :
       handleHlsError(h, ev) =>
         /\ ObservedAction = ActionFor(ev, sess[h].direct, networkRetryCount,
                                       mediaRetryCount, keyErrorCount)
         /\ keyErrorCount' =
              IF ev.details \in {"keyLoadError", "keyLoadTimeOut"}
              THEN keyErrorCount + 1 ELSE keyErrorCount
         /\ ObservedAction.kind = "surface" /\ ObservedAction.err.type = "network"
              => mediaRetryCount' = mediaRetryCount
         /\ ObservedAction.kind = "surface" /\ ObservedAction.err.type = "media"
              => networkRetryCount' = networkRetryCount]_vars

C14_Witness ==
  /\ last.op = "hlsError"
  /\ keyErrorCount = 6
  /\ last.surfaced = PlayerError("key", FALSE)
  /\ last.cmds = {Cmd(last.s, "stopLoad")}

(***************************************************************************)
(* Properties of the playback supervisor under teardown.                   *)
(***************************************************************************)
\* the steps that resume initPlayer after one of its awaits
ContinuationOps == {"probe", "probeSwitch", "probeFailed", "import", "importFail"}

\* the state of the supervisor that a continuation can write
Supervised ==
  <<useDirectPlay, playMode, retryCount, error, effectPending,
    networkRetryCount, mediaRetryCount, keyErrorCount, timers, hlsRef, artRef>>

\* the run of the init effect a step belongs to was cleaned up before the step
TornDown(s) == ~mounted \/ s # cur

\* C15: a continuation of initPlayer (after the probe, after the dynamic
\* imports) whose run of the effect was torn down changes nothing of the
\* supervisor, issues no command and creates no player for that run.
C15_StaleContinuationInert ==
  [][(last'.op \in ContinuationOps /\ TornDown(last'.s)) =>
       /\ Supervised' = Supervised
       /\ last'.cmds = {}
       /\ last'.surfaced = NoError
       /\ sess'[last'.s].art = "none"]_vars

\* the steps in which the cleanup of the init effect runs
TeardownOps == RestartOps \cup {"unmount"}

\* C16: the cleanup of a session (unmount, URL change, retry, the re-run after
\* a transport switch) leaves no retry timer pending, every pending timer
\* belongs to an engine that was not destroyed, and a timer that fires sends
\* its command to that engine only.
C16_TeardownFlushesTimers ==
  [][/\ last'.op \in TeardownOps => timers' = {}
     /\ \A t \in timers' : sess'[t.hls].hls = "live"
     /\ last'.op = "timer" =>
          \A c \in last'.cmds :
            /\ c.hls = last'.s
            /\ sess[c.hls].hls = "live"
            /\ \E t \in timers : t.hls = c.hls /\ t.kind = c.cmd]_vars

\* an engine that had scheduled a retry was destroyed by an unmount
C16_Witness ==
  /\ last.op = "unmount"
  /\ networkRetryCount + mediaRetryCount = 1
  /\ \E c \in last.cmds : c.cmd = "destroy"
  /\ timers = {}

\* the commands that make an engine load or decode again
StreamCommands == {"startLoad", "recoverMediaError", "loadSource"}

\* C17: while a surfaced error stands (no user retry since), no step issues a
\* stream command and no step schedules a retry timer.
C17_QuietAfterFatal ==
  [][(error # NoError /\ last'.op # "retry") =>
       /\ \A c \in last'.cmds : c.cmd \notin StreamCommands
       /\ timers' \subseteq timers]_vars

\* C18: a step that falls back from direct to proxied play leaves retryCount
\* (the retry generation) as it was, and retryCount changes in no step but
\* handleRetry.
C18_FallbackKeepsGeneration ==
  [][/\ (useDirectPlay /\ ~useDirectPlay') => retryCount' = retryCount
     /\ retryCount' # retryCount => last'.op = "retry"]_vars

\* the step neither hands an error to the error display nor calls onError
NothingSurfaced == last'.surfaced = NoError /\ ~last'.notified

\* C19: once a category's counter is beyond its ceiling, a further error of
\* that category (one that counts again) surfaces nothing and does not call
\* the error callback, until handleRetry resets the counters.
C19_SingleFatalPerGeneration ==
  [][last'.op = "hlsError" =>
       /\ (KeyOverCeiling(keyErrorCount) /\ keyErrorCount' > keyErrorCount)
            => NothingSurfaced
       /\ (NetworkOverCeiling(networkRetryCount) /\ networkRetryCount' > networkRetryCount)
            => NothingSurfaced
       /\ (MediaOverCeiling(mediaRetryCount) /\ mediaRetryCount' > mediaRetryCount)
            => NothingSurfaced]_vars

\* C20: handling an event that is not flagged fatal changes nothing of the
\* supervisor, surfaces nothing and issues no command, unless it is a key-load
\* error, which counts whatever its fatal flag says.
C20_NonFatalIgnored ==
  [][last'.op = "hlsError" =>
       \A h \in {last'.s}, ev \in HlsEvents :
         (~ev.fatal /\ handleHlsError(h, ev)) =>
           IF IsKeyError(ev)
           THEN keyErrorCount' = keyErrorCount + 1
           ELSE /\ Supervised' = Supervised
                /\ NothingSurfaced
                /\ last'.cmds = {}]_vars

\* C21: the step in which the parent passes another videoUrl leaves the
\* network, media and key counters at zero.
C21_UrlChangeResetsCounters ==
  [][last'.op = "url" =>
       /\ networkRetryCount' = 0
       /\ mediaRetryCount' = 0
       /\ keyErrorCount' = 0]_vars

KeyEvents == {ev \in HlsEvents : ev.details \in {"keyLoadError", "keyLoadTimeOut"}}

\* C22: a key-load error or key-load timeout, fatal or not, adds one to the key
\* counter and leaves the network and media counters, the timers and the
\* transport alone; up to a count of 5 it surfaces nothing and issues no
\* command, at 6 it surfaces the key error without retry and stops loading.
C22_KeyErrorsEscalateAfterCeiling ==
  [][last'.op = "hlsError" =>
       \A h \in {last'.s}, ev \in KeyEvents :
         handleHlsError(h, ev) =>
           /\ keyErrorCount' = keyErrorCount + 1
           /\ networkRetryCount' = networkRetryCount
           /\ mediaRetryCount' = mediaRetryCount
           /\ timers' = timers
           /\ useDirectPlay' = useDirectPlay /\ retryCount' = retryCount
           /\ keyErrorCount' <= 5 =>
                /\ NothingSurfaced
                /\ last'.cmds = {}
                /\ error' = error
           /\ keyErrorCount' = 6 =>
                /\ last'.surfaced = PlayerError("key", FALSE)
                /\ last'.notified
                /\ error' = PlayerError("key", FALSE)
                /\ last'.cmds = {Cmd(h, "stopLoad")}]_vars

\* the sixth key error of a generation was handled
C22_Witness ==
  /\ last.op = "hlsError"
  /\ keyErrorCount = 6 /\ networkRetryCount = 0 /\ mediaRetryCount = 0
  /\ error = PlayerError("key", FALSE)
  /\ last.notified

FatalMediaEvents ==
  {ev \in HlsEvents : IsGenericFatal(ev) /\ ev.type = "mediaError"}
FatalNetworkEvents ==
  {ev \in HlsEvents : IsGenericFatal(ev) /\ ev.type = "networkError"}

\* C23: the first and the second fatal media error each schedule one
\* recoverMediaError on the reporting engine after 500 ms and surface nothing;
\* the third surfaces a media error without retry and stops loading; a media
\* error leaves the network counter alone and a network error the media
\* counter.
C23_MediaRecoveryThenFatal ==
  [][last'.op = "hlsError" =>
       /\ \A h \in {last'.s}, ev \in FatalMediaEvents :
            handleHlsError(h, ev) =>
              /\ mediaRetryCount' = mediaRetryCount + 1
              /\ networkRetryCount' = networkRetryCount
              /\ keyErrorCount' = keyErrorCount
              /\ mediaRetryCount' <= 2 =>
                   /\ timers' =
                        timers \cup {Timer(h, "recoverMediaError", mediaRetryCount', 500)}
                   /\ Cardinality(timers') = Cardinality(timers) + 1
                   /\ NothingSurfaced
                   /\ error' = error
                   /\ last'.cmds = {}
              /\ mediaRetryCount' = 3 =>
                   /\ timers' = timers
                   /\ last'.surfaced = PlayerError("media", FALSE)
                   /\ last'.notified
                   /\ error' = PlayerError("media", FALSE)
                   /\ last'.cmds = {Cmd(h, "stopLoad")}
       /\ \A h \in {last'.s}, ev \in FatalNetworkEvents :
            handleHlsError(h, ev) =>
              /\ networkRetryCount' = networkRetryCount + 1
              /\ mediaRetryCount' = mediaRetryCount]_vars

\* the third fatal media error of a generation was handled after the recovery
\* of the second one ran, with network errors counted in between
C23_Witness ==
  /\ last.op = "hlsError"
  /\ mediaRetryCount = 3 /\ networkRetryCount > 0
  /\ error = PlayerError("media", FALSE)
  /\ last.cmds = {Cmd(last.s, "stopLoad")}
  /\ timers = {}

\* C24: the session that handleRetry starts begins with the reachability
\* probe, whatever transport the previous attempt ended in.
C24_RetryProbesAgain ==
  [][last'.op = "retry" => sess'[cur'].stage = "probe"]_vars

(***************************************************************************)
(* Properties of the auto-load started by the ready handler.               *)
(***************************************************************************)
\* every player constructed so far has been destroyed
NoPlayerLive == \A s \in Sessions : sess[s].art # "live"

\* C25: when the result of the auto-load arrives after the player that asked
\* for it was destroyed, the continuation writes neither danmakuList nor
\* autoLoadStatus and loads nothing into a danmaku plugin.
C25_StaleAutoLoadDropped ==
  [][(autoLoadArt # 0 /\ autoLoadArt' = 0 /\ NoPlayerLive) =>
       /\ danmakuList' = danmakuList
       /\ autoLoadStatus' = autoLoadStatus
       /\ pluginLoad' = pluginLoad]_vars

\* the request failed on the network, or its response does not parse
IoError(http) ==
  http.net = "fail" \/ (http.net = "ok" /\ http.ok /\ http.body.json = "invalid")

\* C26: a run of autoLoadDanmaku in which a catalog request met an I/O error
\* ends in the result of the outer catch: no success, no comments, the message
\* "auto-load failed".
C26_IoFailureReported ==
  (pc = "done" /\ \E i \in 1..Len(replies) : IoError(replies[i].http))
    => result = AutoLoadFailed

\* C27: when the match response reports a match and getComments hands back no
\* comment for its episode, the run is over: no success, no comments, the
\* titles of the match response, the message "matched but no comments", and
\* no request besides the match request and that one comment request.
C27_MatchedWithoutComments ==
  (/\ Len(replies) = 2
   /\ MatchReported(replies[1].http)
   /\ ~replies[2].threw /\ replies[2].value = <<>>) =>
    /\ pc = "done"
    /\ result.settled = "resolved"
    /\ ~result.success
    /\ result.danmaku = <<>>
    /\ result.matchedTitle = replies[1].http.body.animeTitle
    /\ result.episodeTitle = replies[1].http.body.episodeTitle
    /\ result.message = "matchedNoComments"
    /\ requests = <<Request("match", videoTitle),
                    Request("comment", replies[1].http.body.episodeId)>>

\* a matched episode whose comment response is an empty list
C27_Witness ==
  /\ pc = "done"
  /\ Len(replies) = 2
  /\ MatchReported(replies[1].http)
  /\ Delivered(replies[2].http)
  /\ replies[2].http.body.present /\ replies[2].http.body.comments = <<>>
  /\ result.message = "matchedNoComments"
  /\ result.matchedTitle = "matchedAnime"

\* the catalog functions called so far, in order
Apis == [i \in 1..Len(requests) |-> requests[i].api]

\* a result without success and without comments
Failure == result.settled = "resolved" /\ ~result.success /\ result.danmaku = <<>>

\* C28: the requests of a run are a prefix of match, search, bangumi, comment,
\* or match followed by the comment request of the matched episode; the search
\* is asked for only when the match response reports no match; an empty
\* title asks for nothing, an empty keyword for no search, an empty search
\* result for no detail, a detail without episodes for no comments, and each
\* of these runs ends without success and without comments.
C28_RequestOrder ==
  /\ Apis \in {<<>>, <<"match">>, <<"match", "comment">>, <<"match", "search">>,
               <<"match", "search", "bangumi">>,
               <<"match", "search", "bangumi", "comment">>}
  /\ Len(requests) >= 2 =>
       (requests[2].api = "comment" <=> MatchReported(replies[1].http))
  /\ (pc = "done" /\ Trim(videoTitle) = <<>>) => (requests = <<>> /\ Failure)
  /\ (/\ Len(replies) >= 1
      /\ ~MatchReported(replies[1].http)
      /\ extractSearchKeyword(videoTitle) = <<>>) =>
       (pc = "done" /\ Apis = <<"match">> /\ Failure)
  /\ (/\ Len(replies) >= 2
      /\ replies[2].api = "search"
      /\ replies[2].value = <<>>) =>
       (pc = "done" /\ Apis = <<"match", "search">> /\ Failure)
  /\ (/\ Len(replies) >= 3
      /\ replies[3].api = "bangumi"
      /\ (replies[3].value.null \/ replies[3].value.episodes = <<>>)) =>
       (pc = "done" /\ Apis = <<"match", "search", "bangumi">> /\ Failure)

\* a run that went through the four requests and loaded comments
C28_Witness ==
  /\ pc = "done"
  /\ Apis = <<"match", "search", "bangumi", "comment">>
  /\ ~MatchReported(replies[1].http)
  /\ result.success

\* the time, in thousandths, the claim gives each sample time token
ClaimedTime(tk, fallbackTime) ==
  CASE tk = <<"1", "2", ".", "5">> -> Num(12500)
    [] tk = <<"0">> -> Num(0)
    [] OTHER -> fallbackTime

\* C29 (as claimed): the time of an item is the number its first field parses
\* to, 0 included, and the t of the record only when the field is no number.
C29_TimeFromFirstField ==
  \A c \in Converted : \A tk \in TimeTokens, md \in ModeTokens, cl \in ColorTokens :
    c[1].p = Packed(tk, md, cl) => c[2].time = ClaimedTime(tk, c[1].t)

\* the engines created and not destroyed
LiveEngines == {s \in Sessions : sess[s].hls = "live"}

\* C30: never more than one engine is live, the live engine is the one
\* hlsRef holds, and after the unmount none is live.
C30_OneEngineNoLeak ==
  /\ Cardinality(LiveEngines) <= 1
  /\ LiveEngines \subseteq {hlsRef}
  /\ ~mounted => LiveEngines = {}

(***************************************************************************)
(* Properties of the manual search panel.                                  *)
(***************************************************************************)
\* C31: whenever no request of the panel is in flight, the series list is
\* empty or the catalog's answer to the last submitted keyword, the episode
\* list is empty or the list of the selected series, and the selected episode
\* is none or an episode of the selected series.
C31_PanelConsistent ==
  panelCalls = <<>> =>
    /\ panelAnimes \in {<<>>, CatalogSearch(submitted)}
    /\ panelEpisodes \in {<<>>, CatalogEpisodes(selectedAnime.animeId)}
    /\ selectedEpisode \in {NoEpisode} \cup Listed(CatalogEpisodes(selectedAnime.animeId))

====
